---- MODULE Spec2Model ----
(***************************************************************************)
(* Model of mongoose-query-builder: the graph() entry point of             *)
(* QueryBuilder (src/src/query-builder.ts) with the filter mapper and the  *)
(* filter merge, and the QueryBuilderMiddleware                            *)
(* (src/src/middlewares/query-builder.middleware.ts).                      *)
(*                                                                         *)
(* JavaScript values are records [t, n, s, o]:                             *)
(*   t  the type tag ("undef","null","bool","num","nan","str","arr","obj", *)
(*      "fn"), n the number (or 0/1 for a boolean), s the characters of a  *)
(*      string, o the entries [k, v] of an object or array in insertion    *)
(*      order.                                                             *)
(* A string is a sequence of tokens: a word or a digit is one token and    *)
(* each of _ , : - ( ) and the blank is a token of its own, so "age_gt" is *)
(* <<"age","_","gt">>, "-_id" is <<"-","_","id">> and "12" is <<"1","2">>. *)
(* Property keys are such strings.                                         *)
(***************************************************************************)
EXTENDS Integers, Sequences, FiniteSets, TLC

----------------------------------------------------------------------------
(* JavaScript values *)

Undef == [t |-> "undef", n |-> 0, s |-> <<>>, o |-> <<>>]

Null == [t |-> "null", n |-> 0, s |-> <<>>, o |-> <<>>]

NaN == [t |-> "nan", n |-> 0, s |-> <<>>, o |-> <<>>]

Bool(b) == [t |-> "bool", n |-> IF b THEN 1 ELSE 0, s |-> <<>>, o |-> <<>>]

Num(i) == [t |-> "num", n |-> i, s |-> <<>>, o |-> <<>>]

Str(chars) == [t |-> "str", n |-> 0, s |-> chars, o |-> <<>>]

Obj(entries) == [t |-> "obj", n |-> 0, s |-> <<>>, o |-> entries]

Arr(entries) == [t |-> "arr", n |-> 0, s |-> <<>>, o |-> entries]

Entry(key, val) == [k |-> key, v |-> val]

EmptyObj == Obj(<<>>)

\* JavaScript truthiness, as used by `if (x)` and `x || y`
Truthy(x) ==
    CASE x.t = "undef" -> FALSE
      [] x.t = "null" -> FALSE
      [] x.t = "nan" -> FALSE
      [] x.t = "bool" -> x.n = 1
      [] x.t = "num" -> x.n # 0
      [] x.t = "str" -> x.s # <<>>
      [] OTHER -> TRUE

\* x || d
OrElse(x, d) == IF Truthy(x) THEN x ELSE d

\* typeof x === "object": objects, arrays and null
TypeofObject(x) == x.t \in {"obj", "arr", "null"}

\* obj[key] (undefined when the key is absent)
Get(obj, key) ==
    IF \E i \in 1..Len(obj.o) : obj.o[i].k = key
    THEN obj.o[CHOOSE i \in 1..Len(obj.o) : obj.o[i].k = key].v
    ELSE Undef

\* `key in obj` for own properties
Has(obj, key) == \E i \in 1..Len(obj.o) : obj.o[i].k = key

\* obj[key] = val: replaces in place, else appends (insertion order)
Put(obj, key, val) ==
    IF Has(obj, key)
    THEN [obj EXCEPT !.o = [i \in 1..Len(obj.o) |->
                               IF obj.o[i].k = key THEN Entry(key, val) ELSE obj.o[i]]]
    ELSE [obj EXCEPT !.o = Append(obj.o, Entry(key, val))]

\* delete obj[key]
Delete(obj, key) ==
    [obj EXCEPT !.o = SelectSeq(obj.o, LAMBDA e : e.k # key)]

\* Object.keys(obj)
Keys(obj) == {obj.o[i].k : i \in 1..Len(obj.o)}

\* { ...a, ...b }
RECURSIVE PutAll(_, _)
PutAll(a, es) ==
    IF es = <<>> THEN a ELSE PutAll(Put(a, Head(es).k, Head(es).v), Tail(es))

\* the names of the first ten indices of an array
IndexNames == <<"0", "1", "2", "3", "4", "5", "6", "7", "8", "9">>

\* the own enumerable properties of x: the elements of an array are listed
\* under their indices
OwnEntries(x) ==
    IF x.t = "arr"
    THEN [i \in 1..Len(x.o) |-> Entry(<<IndexNames[i]>>, x.o[i].v)]
    ELSE x.o

Spread(a, b) == PutAll(Obj(OwnEntries(a)), OwnEntries(b))

\* an array literal [v1, ..., vn]
ArrOf(vals) == Arr([i \in 1..Len(vals) |-> Entry(<<>>, vals[i])])

\* Array.prototype.push
Push(arr, val) == [arr EXCEPT !.o = Append(arr.o, Entry(<<>>, val))]

\* Array.prototype.includes
ArrIncludes(arr, x) == \E i \in 1..Len(arr.o) : arr.o[i].v = x

\* the elements of an array, as a sequence of values
Elems(arr) == [i \in 1..Len(arr.o) |-> arr.o[i].v]

----------------------------------------------------------------------------
(* Strings *)

Digits == <<"0", "1", "2", "3", "4", "5", "6", "7", "8", "9">>

IsDigit(c) == \E i \in 1..10 : Digits[i] = c

DigitVal(c) == (CHOOSE i \in 1..10 : Digits[i] = c) - 1

RECURSIVE DecimalVal(_, _)
DecimalVal(chars, acc) ==
    IF chars = <<>> THEN acc
    ELSE DecimalVal(Tail(chars), acc * 10 + DigitVal(Head(chars)))

\* String.prototype.toLowerCase on the letters the model uses
LowerChar(c) ==
    CASE c = "T" -> "t" [] c = "R" -> "r" [] c = "U" -> "u" [] c = "E" -> "e"
      [] c = "DESC" -> "desc" [] c = "ASC" -> "asc" [] c = "Desc" -> "desc"
      [] OTHER -> c

ToLowerCase(chars) == [i \in 1..Len(chars) |-> LowerChar(chars[i])]

\* String.prototype.trim
RECURSIVE TrimLeft(_)
TrimLeft(chars) ==
    IF chars # <<>> /\ Head(chars) = " " THEN TrimLeft(Tail(chars)) ELSE chars

RECURSIVE TrimRight(_)
TrimRight(chars) ==
    IF chars # <<>> /\ chars[Len(chars)] = " "
    THEN TrimRight(SubSeq(chars, 1, Len(chars) - 1)) ELSE chars

Trim(chars) == TrimRight(TrimLeft(chars))

RECURSIVE ToNumber(_)

\* Number(chars) for the characters of a string without outer blanks
TrimmedToNumber(chars) ==
    IF chars = <<>> THEN Num(0)
    ELSE IF \A i \in 1..Len(chars) : IsDigit(chars[i])
         THEN Num(DecimalVal(chars, 0))
         ELSE IF /\ Head(chars) = "-" /\ Len(chars) > 1
                 /\ \A i \in 2..Len(chars) : IsDigit(chars[i])
              THEN Num(0 - DecimalVal(Tail(chars), 0))
              ELSE NaN

StringToNumber(chars) == TrimmedToNumber(Trim(chars))

\* Number(x)
ToNumber(x) ==
    CASE x.t = "num" -> x
      [] x.t = "bool" -> Num(x.n)
      [] x.t = "null" -> Num(0)
      [] x.t = "str" -> StringToNumber(x.s)
      [] x.t = "arr" /\ Len(x.o) = 0 -> Num(0)
      [] x.t = "arr" /\ Len(x.o) = 1 ->
            ToNumber(IF x.o[1].v.t = "undef" THEN Null
                     ELSE IF x.o[1].v.t = "bool" THEN NaN ELSE x.o[1].v)
      [] OTHER -> NaN

\* isNaN(x) for x already a number
IsNaN(x) == x.t = "nan"

\* the string "true"
TrueChars == <<"t", "r", "u", "e">>

\* String(x).toLowerCase() === "true"
IsTrueString(x) ==
    \/ x.t = "bool" /\ x.n = 1
    \/ x.t = "str" /\ ToLowerCase(x.s) = TrueChars
    \/ x.t = "arr" /\ Len(x.o) = 1 /\ x.o[1].v.t = "str"
         /\ ToLowerCase(x.o[1].v.s) = TrueChars

RECURSIVE SplitLoop(_, _, _, _)
SplitLoop(chars, sep, cur, acc) ==
    IF chars = <<>> THEN Append(acc, cur)
    ELSE IF Head(chars) = sep
         THEN SplitLoop(Tail(chars), sep, <<>>, Append(acc, cur))
         ELSE SplitLoop(Tail(chars), sep, Append(cur, Head(chars)), acc)

\* chars.split(sep), as a sequence of strings
SplitOn(chars, sep) == SplitLoop(chars, sep, <<>>, <<>>)

\* an array of string values from a sequence of strings
StrArr(seqs) == ArrOf([i \in 1..Len(seqs) |-> Str(seqs[i])])

\* value.split(",") as an array of string values
Split(x) == StrArr(SplitOn(x.s, ","))

\* key.includes(c)
Includes(chars, c) == \E i \in 1..Len(chars) : chars[i] = c

\* key.startsWith(c)
StartsWith(chars, c) == chars # <<>> /\ Head(chars) = c

----------------------------------------------------------------------------
(* Filter Operator Mapper and Filter Merge Engine (QueryBuilder) *)

\* the value a function call yields when it throws a TypeError
Thrown == [t |-> "throw", n |-> 0, s |-> <<>>, o |-> <<>>]

IsThrown(x) == x.t = "throw"

\* operatorMap[operator] || null  (<<>> stands for null)
mapOperatorToMongoOperator(operator) ==
    CASE operator = <<"eq">> -> <<"$eq">>
      [] operator = <<"ne">> -> <<"$ne">>
      [] operator = <<"gt">> -> <<"$gt">>
      [] operator = <<"gte">> -> <<"$gte">>
      [] operator = <<"lt">> -> <<"$lt">>
      [] operator = <<"lte">> -> <<"$lte">>
      [] operator = <<"in">> -> <<"$in">>
      [] operator = <<"nin">> -> <<"$nin">>
      [] operator = <<"regex">> -> <<"$regex">>
      [] operator = <<"exists">> -> <<"$exists">>
      [] operator = <<"type">> -> <<"$type">>
      [] operator = <<"mod">> -> <<"$mod">>
      [] operator = <<"all">> -> <<"$all">>
      [] operator = <<"size">> -> <<"$size">>
      [] operator = <<"elemMatch">> -> <<"$elemMatch">>
      [] operator = <<"text">> -> <<"$text">>
      [] OTHER -> <<>>

\* key.includes("_")
HasUnderscore(key) == Includes(key, "_")

\* x when it is a number, else the fallback
NumberOr(x, fallback) == IF ~IsNaN(x) THEN x ELSE fallback

\* the `between` case of parseFilters for the numbers of the split value
parseBetween(parsed, field, nums) ==
    IF Len(nums) >= 2 /\ ~IsNaN(nums[1]) /\ ~IsNaN(nums[2])
    THEN Put(Put(parsed, field \o <<"_", "gte">>, nums[1]),
             field \o <<"_", "lte">>, nums[2])
    ELSE parsed

\* the switch of parseFilters on the operator of a key with an underscore
parseFiltersSwitch(parsed, key, value, field, operator) ==
    CASE operator \in {<<"in">>, <<"nin">>, <<"all">>} ->
            Put(parsed, key, IF value.t = "str" THEN Split(value) ELSE value)
      [] operator = <<"exists">> -> Put(parsed, key, Bool(IsTrueString(value)))
      [] operator \in {<<"gt">>, <<"gte">>, <<"lt">>, <<"lte">>} ->
            Put(parsed, key, NumberOr(ToNumber(value), value))
      [] operator = <<"between">> ->
            IF value.t = "str"
            THEN parseBetween(parsed, field,
                     [i \in 1..Len(SplitOn(value.s, ",")) |->
                         StringToNumber(SplitOn(value.s, ",")[i])])
            ELSE parsed
      [] OTHER -> Put(parsed, key, value)

\* the first two pieces of key.split("_")
SplitKey(key) == SubSeq(SplitOn(key, "_"), 1, 2)

\* one iteration of the loop of parseFilters
parseFiltersStep(parsed, key, value) ==
    IF HasUnderscore(key)
    THEN parseFiltersSwitch(parsed, key, value, SplitKey(key)[1], SplitKey(key)[2])
    ELSE Put(parsed, key, value)

RECURSIVE parseFiltersLoop(_, _)
parseFiltersLoop(parsed, entries) ==
    IF entries = <<>> THEN parsed
    ELSE parseFiltersLoop(parseFiltersStep(parsed, Head(entries).k, Head(entries).v),
                          Tail(entries))

parseFilters(filters) == parseFiltersLoop(EmptyObj, filters.o)

\* the operand stored under a Mongo operator: $in and $nin take an array
operandFor(mongoOperator, value) ==
    IF mongoOperator \in {<<"$in">>, <<"$nin">>} /\ value.t # "arr"
    THEN IF value.t = "str" THEN Split(value) ELSE ArrOf(<<value>>)
    ELSE value

\* fieldQuery[mongoOperator] = operand; a class body is strict mode code, so
\* setting a property on a primitive throws a TypeError
setOperator(query, fieldName, fieldQuery, mongoOperator, operand) ==
    IF fieldQuery.t \in {"obj", "arr"}
    THEN Put(query, fieldName, Put(fieldQuery, mongoOperator, operand))
    ELSE Thrown

\* the body of the loop of buildFilterQuery for a key with an underscore
buildFilterQueryOperator(query, fieldName, mongoOperator, value) ==
    IF mongoOperator # <<>>
    THEN IF mongoOperator = <<"$eq">>
         THEN Put(query, fieldName, value)
         ELSE setOperator(query, fieldName, OrElse(Get(query, fieldName), EmptyObj),
                          mongoOperator, operandFor(mongoOperator, value))
    ELSE query

\* one iteration of the loop of buildFilterQuery
buildFilterQueryStep(query, key, value) ==
    IF HasUnderscore(key)
    THEN buildFilterQueryOperator(query, SplitKey(key)[1],
                                  mapOperatorToMongoOperator(SplitKey(key)[2]), value)
    ELSE Put(query, key, value)

RECURSIVE buildFilterQueryLoop(_, _)
buildFilterQueryLoop(query, entries) ==
    IF entries = <<>> \/ IsThrown(query) THEN query
    ELSE buildFilterQueryLoop(
             buildFilterQueryStep(query, Head(entries).k, Head(entries).v),
             Tail(entries))

buildFilterQuery(filters) == buildFilterQueryLoop(EmptyObj, filters.o)

AndKey == <<"$and">>

\* the $and branch of mergeFilterQueries: both conditions go to the $and
\* list and the field's direct entry is deleted
mergeWithAnd(mergedQuery, field, existing, condition) ==
    Delete(Put(mergedQuery, AndKey,
               Push(Push(OrElse(Get(mergedQuery, AndKey), Arr(<<>>)),
                         Obj(<<Entry(field, existing)>>)),
                    Obj(<<Entry(field, condition)>>))),
           field)

\* typeof x !== "object" || x === null
IsSimpleValue(x) == ~TypeofObject(x) \/ x.t = "null"

\* the body of the loop of mergeFilterQueries; existing is mergedQuery[field]
mergeCondition(mergedQuery, field, existing, condition) ==
    IF Truthy(existing)
    THEN IF IsSimpleValue(existing) \/ IsSimpleValue(condition)
         THEN mergeWithAnd(mergedQuery, field, existing, condition)
         ELSE Put(mergedQuery, field, Spread(existing, condition))
    ELSE Put(mergedQuery, field, condition)

\* one iteration of the loop of mergeFilterQueries
mergeStep(mergedQuery, field, condition) ==
    mergeCondition(mergedQuery, field, Get(mergedQuery, field), condition)

RECURSIVE mergeLoop(_, _)
mergeLoop(mergedQuery, entries) ==
    IF entries = <<>> THEN mergedQuery
    ELSE mergeLoop(mergeStep(mergedQuery, Head(entries).k, Head(entries).v),
                   Tail(entries))

mergeFilterQueries(defaultFilters, userFilters) ==
    mergeLoop(Spread(EmptyObj, defaultFilters), userFilters.o)

\* applyFilters once both filter sets went through buildFilterQuery
applyBuiltFilters(opts, defaultFilterQuery, userFilterQuery) ==
    IF Truthy(opts.defaultFilters) /\ IsThrown(defaultFilterQuery) THEN Thrown
    ELSE IF Truthy(opts.filters)
         THEN IF IsThrown(userFilterQuery) THEN Thrown
              ELSE mergeFilterQueries(
                       IF Truthy(opts.defaultFilters)
                       THEN Spread(EmptyObj, defaultFilterQuery) ELSE EmptyObj,
                       userFilterQuery)
         ELSE IF Truthy(opts.defaultFilters)
              THEN Spread(EmptyObj, defaultFilterQuery) ELSE EmptyObj

\* applyFilters: the conditions handed to query.find (EmptyObj when find is
\* not called), or Thrown; opts is the normalized options object
applyFilters(opts) ==
    applyBuiltFilters(opts, buildFilterQuery(opts.defaultFilters),
                      buildFilterQuery(opts.filters))

----------------------------------------------------------------------------
(* What applyFilters writes to the objects it was given. buildFilterQuery    *)
(* stores the values of its argument by reference and mergeFilterQueries     *)
(* copies one level only, so a later assignment or push can land in an       *)
(* object of the caller.                                                    *)

\* the loop of buildFilterQuery with the object it reads: st = [query,
\* filters, owner], where owner[field] names the key of filters whose value
\* is the very object query[field] holds (undefined for a fresh object)

\* query[field] = value
sharedEquality(st, field, key, value) ==
    [st EXCEPT !.query = Put(st.query, field, value),
               !.owner = Put(st.owner, field,
                             IF value.t \in {"obj", "arr"} THEN Str(key) ELSE Undef)]

\* fieldQuery[mongoOperator] = operand, seen from query and from filters
sharedAssigned(st, field, ownerKey, fieldQuery) ==
    [st EXCEPT !.query = Put(st.query, field, fieldQuery),
               !.filters = IF ownerKey.t = "str"
                           THEN Put(st.filters, ownerKey.s, fieldQuery)
                           ELSE st.filters]

sharedOperator(st, field, fieldQuery, mongoOperator, operand) ==
    IF fieldQuery.t \in {"obj", "arr"}
    THEN sharedAssigned(st, field, Get(st.owner, field),
                        Put(fieldQuery, mongoOperator, operand))
    ELSE [st EXCEPT !.query = Thrown]

sharedMapped(st, field, key, value, mongoOperator) ==
    IF mongoOperator = <<>> THEN st
    ELSE IF mongoOperator = <<"$eq">> THEN sharedEquality(st, field, key, value)
    ELSE sharedOperator(st, field, OrElse(Get(st.query, field), EmptyObj),
                        mongoOperator, operandFor(mongoOperator, value))

sharedStep(st, key, value) ==
    IF HasUnderscore(key)
    THEN sharedMapped(st, SplitKey(key)[1], key, value,
                      mapOperatorToMongoOperator(SplitKey(key)[2]))
    ELSE sharedEquality(st, key, key, value)

RECURSIVE sharedLoop(_, _)
sharedLoop(st, keys) ==
    IF keys = <<>> \/ IsThrown(st.query) THEN st
    ELSE sharedLoop(sharedStep(st, Head(keys), Get(st.filters, Head(keys))),
                    Tail(keys))

\* nothing was built: the state of a filter set that is not given
NotBuilt(filters) == [query |-> EmptyObj, filters |-> filters, owner |-> EmptyObj]

\* buildFilterQuery(filters) with the filters object as the call leaves it
buildFilterQueryShared(filters) ==
    IF Truthy(filters)
    THEN sharedLoop(NotBuilt(filters), [i \in 1..Len(filters.o) |-> filters.o[i].k])
    ELSE NotBuilt(filters)

\* the loop of mergeFilterQueries with the two given objects: st = [merged,
\* side, key, default, user], where side and key name the given object
\* ("default" or "user" filters, and the key in it) whose value is the very
\* array mergedQuery.$and holds, side "none" for a fresh array

\* mergedQuery.$and.push(defaultCondition, userCondition), seen from the
\* merged query and from the given objects
mergeAndShared(st, merged, wasThere) ==
    [st EXCEPT !.merged = merged,
               !.side = IF wasThere THEN st.side ELSE "none",
               !.default = IF wasThere /\ st.side = "default"
                           THEN Put(st.default, st.key, Get(merged, AndKey))
                           ELSE st.default,
               !.user = IF wasThere /\ st.side = "user"
                        THEN Put(st.user, st.key, Get(merged, AndKey))
                        ELSE st.user]

\* mergedQuery[field] = value, where value is a fresh object or, with
\* ownerKey a string, the value userFilters holds under that key
mergeSetShared(st, field, value, ownerKey) ==
    IF field = AndKey
    THEN [st EXCEPT !.merged = Put(st.merged, field, value),
                    !.side = IF ownerKey.t = "str" THEN "user" ELSE "none",
                    !.key = IF ownerKey.t = "str" THEN ownerKey.s ELSE <<>>]
    ELSE [st EXCEPT !.merged = Put(st.merged, field, value)]

mergeSharedStep(st, field, condition, existing, userOwner) ==
    IF Truthy(existing)
    THEN IF IsSimpleValue(existing) \/ IsSimpleValue(condition)
         THEN mergeAndShared(st, mergeWithAnd(st.merged, field, existing, condition),
                             Truthy(Get(st.merged, AndKey)))
         ELSE mergeSetShared(st, field, Spread(existing, condition), Undef)
    ELSE mergeSetShared(st, field, condition, Get(userOwner, field))

RECURSIVE mergeSharedLoop(_, _, _)
mergeSharedLoop(st, entries, userOwner) ==
    IF entries = <<>> THEN st
    ELSE mergeSharedLoop(
             mergeSharedStep(st, Head(entries).k, Head(entries).v,
                             Get(st.merged, Head(entries).k), userOwner),
             Tail(entries), userOwner)

\* mergeFilterQueries({ ...defaultFilterQuery }, userFilterQuery) on the
\* outcomes of the two buildFilterQuery calls
mergeShared(d, u) ==
    mergeSharedLoop(
        [merged |-> Spread(EmptyObj, d.query),
         side |-> IF Get(d.owner, AndKey).t = "str" THEN "default" ELSE "none",
         key |-> Get(d.owner, AndKey).s,
         default |-> d.filters, user |-> u.filters],
        u.query.o, u.owner)

\* the two given objects after the merge
mergedShared(st) == [defaultFilters |-> st.default, filters |-> st.user]

\* the two filter sets after both went through buildFilterQuery
builtShared(opts, d, u) ==
    IF IsThrown(d.query)
    THEN [defaultFilters |-> d.filters, filters |-> opts.filters]
    ELSE IF IsThrown(u.query) \/ ~Truthy(opts.filters)
         THEN [defaultFilters |-> d.filters, filters |-> u.filters]
         ELSE mergedShared(mergeShared(d, u))

\* options.defaultFilters and options.filters as applyFilters leaves them
applyFiltersShared(opts) ==
    builtShared(opts, buildFilterQueryShared(opts.defaultFilters),
                buildFilterQueryShared(opts.filters))

\* the options object after applyFilters
optionsWritten(opts, written) ==
    [opts EXCEPT !.defaultFilters = written.defaultFilters,
                 !.filters = written.filters]

\* config.filters after applyFilters: parseFilters copied its values by
\* reference, so an object or array it passed on unchanged is the one
\* options.filters holds under the same key
filtersWritten(filters, parsed, written) ==
    IF Truthy(filters)
    THEN [filters EXCEPT !.o = [i \in 1..Len(filters.o) |->
             IF /\ filters.o[i].v.t \in {"obj", "arr"}
                /\ Get(parsed, filters.o[i].k) = filters.o[i].v
             THEN Entry(filters.o[i].k, Get(written, filters.o[i].k))
             ELSE filters.o[i]]]
    ELSE filters

\* the config object after applyFilters ran on the options made from it
configWritten(cfg, opts, written) ==
    [cfg EXCEPT !.defaultFilters = written.defaultFilters,
                !.filters = filtersWritten(cfg.filters, opts.filters, written.filters)]

----------------------------------------------------------------------------
(* Normalizers (QueryBuilder.normalizeOptions and its parsers) *)

\* { field, order } from the pieces of item.split(":"), order defaulting to "asc"
sortItemOf(parts) ==
    Obj(<<Entry(<<"field">>, Str(parts[1])),
          Entry(<<"order">>, IF Len(parts) >= 2 THEN Str(parts[2])
                             ELSE Str(<<"asc">>))>>)

sortItem(chars) == sortItemOf(SplitOn(chars, ":"))

\* items.map(f) for a sequence of strings, as an array
sortItems(items) == ArrOf([i \in 1..Len(items) |-> sortItem(items[i])])

trimmedItems(items) == ArrOf([i \in 1..Len(items) |-> Str(Trim(items[i]))])

pathItems(items) ==
    ArrOf([i \in 1..Len(items) |-> Obj(<<Entry(<<"path">>, Str(Trim(items[i])))>>)])

\* the keys of the entries whose value is 1, as an array of strings
includedKeys(kept) == ArrOf([i \in 1..Len(kept) |-> Str(kept[i].k)])

\* a parseSorting that leaves an array of 'field:dir' strings as it is
parseSorting_unsplit(sort) ==
    CASE sort.t = "str" -> sortItems(SplitOn(sort.s, ","))
      [] sort.t = "arr" -> sort
      [] OTHER -> Arr(<<>>)

parseSorting(sort) ==
    CASE sort.t = "str" -> sortItems(SplitOn(sort.s, ","))
      [] sort.t = "arr" ->
            IF Len(sort.o) > 0 /\ sort.o[1].v.t = "str"
            THEN ArrOf([i \in 1..Len(sort.o) |-> sortItem(sort.o[i].v.s)])
            ELSE sort
      [] OTHER -> Arr(<<>>)

parseSelect(select) ==
    CASE select.t = "str" -> trimmedItems(SplitOn(select.s, ","))
      [] select.t = "arr" -> select
      [] select.t = "obj" -> includedKeys(SelectSeq(select.o, LAMBDA e : e.v = Num(1)))
      [] OTHER -> Arr(<<>>)

parseExpand(expand) ==
    CASE expand.t = "str" -> pathItems(SplitOn(expand.s, ","))
      [] expand.t = "arr" ->
            IF Len(expand.o) > 0 /\ expand.o[1].v.t = "str"
            THEN ArrOf([i \in 1..Len(expand.o) |->
                           Obj(<<Entry(<<"path">>, expand.o[i].v)>>)])
            ELSE expand
      [] OTHER -> Arr(<<>>)

DefaultPage == 1

DefaultLimit == 10

\* the options object built from the config without its entity
normalizeOptions(cfg) ==
    [filters |-> IF Truthy(cfg.filters) THEN parseFilters(cfg.filters) ELSE Undef,
     sorting |-> IF Truthy(cfg.sort) THEN parseSorting(cfg.sort) ELSE Undef,
     pagination |->
        IF Truthy(cfg.pagination)
        THEN Obj(<<Entry(<<"page">>,
                         OrElse(Get(cfg.pagination, <<"page">>), Num(DefaultPage))),
                   Entry(<<"limit">>,
                         OrElse(Get(cfg.pagination, <<"limit">>), Num(DefaultLimit))),
                   Entry(<<"offset">>, Get(cfg.pagination, <<"offset">>)),
                   Entry(<<"cursor">>, Get(cfg.pagination, <<"cursor">>))>>)
        ELSE Undef,
     selectFields |-> IF Truthy(cfg.fields) THEN parseSelect(cfg.fields) ELSE Undef,
     populate |-> IF Truthy(cfg.expand) THEN parseExpand(cfg.expand) ELSE Undef,
     defaultFilters |-> cfg.defaultFilters,
     restrictedFields |-> cfg.restrictedFields,
     fullTextSearch |-> cfg.fullTextSearch]

----------------------------------------------------------------------------
(* Native query assembly (QueryBuilder.buildQuery, buildCountQuery) *)

\* the query object returned by model.find(); calls lists the methods
\* called on it since, each with its argument
NewQuery ==
    [conditions |-> EmptyObj, sort |-> EmptyObj, projection |-> EmptyObj,
     populate |-> Arr(<<>>), skip |-> Undef, limit |-> Undef, calls |-> <<>>]

\* the query with one more method call on record
Called(query, method, arg) ==
    [query EXCEPT !.calls = Append(@, [method |-> method, arg |-> arg])]

\* Query.find(conditions): a key not yet constrained is added, two objects
\* under one key are merged key by key, anything else keeps the earlier value
RECURSIVE QueryFindLoop(_, _)

QueryFindEntry(conds, key, cur, val) ==
    IF cur.t \in {"undef", "null"} THEN Put(conds, key, val)
    ELSE IF cur.t = "obj" /\ val.t = "obj"
         THEN Put(conds, key, QueryFindLoop(cur, val.o))
         ELSE conds

QueryFindLoop(conds, entries) ==
    IF entries = <<>> THEN conds
    ELSE QueryFindLoop(QueryFindEntry(conds, Head(entries).k,
                                      Get(conds, Head(entries).k), Head(entries).v),
                       Tail(entries))

QueryFind(query, conds) ==
    Called([query EXCEPT !.conditions = QueryFindLoop(query.conditions, conds.o)],
           "find", conds)

\* Query.sort(spec) and Query.select(spec) add the keys of spec to what the
\* query already holds
QuerySort(query, spec) ==
    Called([query EXCEPT !.sort = PutAll(query.sort, spec.o)], "sort", spec)

QuerySelect(query, spec) ==
    Called([query EXCEPT !.projection = PutAll(query.projection, spec.o)],
           "select", spec)

\* x with the destructuring default d (applies to undefined only)
Default(x, d) == IF x.t = "undef" THEN d ELSE x

textClause(fts) ==
    Obj(<<Entry(<<"$search">>, fts.searchText),
          Entry(<<"$caseSensitive">>, fts.caseSensitive),
          Entry(<<"$diacriticSensitive">>, fts.diacriticSensitive)>>)

buildFullTextSearchQuery(fts) ==
    Obj(<<Entry(<<"$text">>,
                IF Truthy(fts.language)
                THEN Put(textClause(fts), <<"$language">>, fts.language)
                ELSE textClause(fts))>>)

TextScore == Obj(<<Entry(<<"score">>, Obj(<<Entry(<<"$meta">>, Str(<<"textScore">>))>>))>>)

includeTextScore == TextScore

sortByTextScore == TextScore

\* the query after query.find(textSearchQuery), with the score projection
\* and the score sort when sortByScore is set
applyTextSearchQuery(query, textSearchQuery, sortByScore) ==
    IF Truthy(sortByScore)
    THEN QuerySort(QuerySelect(QueryFind(query, textSearchQuery), includeTextScore),
                   sortByTextScore)
    ELSE QueryFind(query, textSearchQuery)

applyFullTextSearch(query, fullTextSearch) ==
    applyTextSearchQuery(query,
        buildFullTextSearchQuery(
            [searchText |-> Get(fullTextSearch, <<"searchText">>),
             language |-> Get(fullTextSearch, <<"language">>),
             caseSensitive |->
                Default(Get(fullTextSearch, <<"caseSensitive">>), Bool(FALSE)),
             diacriticSensitive |->
                Default(Get(fullTextSearch, <<"diacriticSensitive">>), Bool(FALSE))]),
        Default(Get(fullTextSearch, <<"sortByScore">>), Bool(FALSE)))

\* the sortOptions object of buildQuery
RECURSIVE sortOptionsLoop(_, _)
sortOptionsLoop(sortOptions, items) ==
    IF items = <<>> THEN sortOptions
    ELSE sortOptionsLoop(
             Put(sortOptions, Get(Head(items).v, <<"field">>).s,
                 IF Get(Head(items).v, <<"order">>) = Str(<<"asc">>)
                 THEN Num(1) ELSE Num(0 - 1)),
             Tail(items))

MinusId == <<"-", "_", "id">>

IdKey == <<"_", "id">>

\* one iteration of the selectFields loop of buildQuery
selectProjectionStep(projection, field) ==
    IF field = MinusId THEN Delete(projection, IdKey)
    ELSE IF ~StartsWith(field, "-") THEN Put(projection, field, Num(1))
    ELSE projection

\* the projection object built from selectFields in buildQuery
RECURSIVE selectProjectionLoop(_, _)
selectProjectionLoop(projection, fields) ==
    IF fields = <<>> THEN projection
    ELSE selectProjectionLoop(selectProjectionStep(projection, Head(fields).v.s),
                              Tail(fields))

\* the projection object built for one populate entry with a select list
RECURSIVE populateProjectionLoop(_, _)
populateProjectionLoop(projection, fields) ==
    IF fields = <<>> THEN projection
    ELSE populateProjectionLoop(
             IF ~StartsWith(Head(fields).v.s, "-")
             THEN Put(projection, Head(fields).v.s, Num(1)) ELSE projection,
             Tail(fields))

\* a projection that always adds _id
populateSelect_always(select, projection) == Put(projection, IdKey, Num(1))

\* the projection of a populate entry: _id is added unless "-_id" is listed
populateSelect(select, projection) ==
    IF ArrIncludes(select, Str(MinusId)) THEN projection
    ELSE Put(projection, IdKey, Num(1))

\* the argument of query.populate for one entry of options.populate
populateEntry(path, select) ==
    IF Truthy(select)
    THEN Obj(<<Entry(<<"path">>, path),
               Entry(<<"select">>,
                     populateSelect(select, populateProjectionLoop(EmptyObj, select.o)))>>)
    ELSE Obj(<<Entry(<<"path">>, path)>>)

populateArg(opt) == populateEntry(Get(opt, <<"path">>), Get(opt, <<"select">>))

\* the stages of buildQuery after the filters
applySearch(query, opts) ==
    IF Truthy(opts.fullTextSearch)
    THEN applyFullTextSearch(query, opts.fullTextSearch) ELSE query

applySort(query, opts) ==
    IF Truthy(opts.sorting) /\ Len(opts.sorting.o) > 0
    THEN QuerySort(query, sortOptionsLoop(EmptyObj, opts.sorting.o)) ELSE query

applySelect(query, opts) ==
    IF Truthy(opts.selectFields) /\ Len(opts.selectFields.o) > 0
    THEN QuerySelect(query, selectProjectionLoop(EmptyObj, opts.selectFields.o))
    ELSE query

\* Query.populate(arg), once for each argument
QueryPopulate(query, args) ==
    [query EXCEPT !.populate = ArrOf(args),
                  !.calls = @ \o [i \in 1..Len(args) |->
                                     [method |-> "populate", arg |-> args[i]]]]

applyPopulate(query, opts) ==
    IF Truthy(opts.populate) /\ Len(opts.populate.o) > 0
    THEN QueryPopulate(query,
             [i \in 1..Len(opts.populate.o) |-> populateArg(opts.populate.o[i].v)])
    ELSE query

\* Query.skip(n) and Query.limit(n)
QuerySkip(query, n) == Called([query EXCEPT !.skip = n], "skip", n)

QueryLimit(query, n) == Called([query EXCEPT !.limit = n], "limit", n)

skipLimit(query, page, limit) ==
    QueryLimit(QuerySkip(query, Num((page.n - 1) * limit.n)), limit)

applyPagination(query, opts) ==
    IF Truthy(opts.pagination)
    THEN skipLimit(query,
                   Default(Get(opts.pagination, <<"page">>), Num(DefaultPage)),
                   Default(Get(opts.pagination, <<"limit">>), Num(DefaultLimit)))
    ELSE query

\* a buildQuery that paginates before it populates
buildStages_paginateEarly(filtered, opts) ==
    IF IsThrown(filtered.conditions) THEN filtered
    ELSE applyPopulate(
             applyPagination(
                 applySelect(applySort(applySearch(filtered, opts), opts), opts),
                 opts),
             opts)

\* the stages of buildQuery on the query that holds the filters
buildStages(filtered, opts) ==
    IF IsThrown(filtered.conditions) THEN filtered
    ELSE applyPagination(
             applyPopulate(
                 applySelect(applySort(applySearch(filtered, opts), opts), opts),
                 opts),
             opts)

\* the query applyFilters returns for the conditions it built: query.find
\* is called when the filter has a key
filteredQuery(conds) ==
    IF IsThrown(conds) \/ Len(conds.o) = 0
    THEN [NewQuery EXCEPT !.conditions = conds]
    ELSE Called([NewQuery EXCEPT !.conditions = conds], "find", conds)

\* buildQuery; its conditions are Thrown when applyFilters throws
buildQuery(opts) == buildStages(filteredQuery(applyFilters(opts)), opts)

countStages(filtered, opts) ==
    IF IsThrown(filtered.conditions) THEN filtered ELSE applySearch(filtered, opts)

\* a buildCountQuery that forgets the text search
buildCountQuery_filtersOnly(opts) == filteredQuery(applyFilters(opts))

\* buildCountQuery; its conditions are Thrown when applyFilters throws
buildCountQuery(opts) == countStages(filteredQuery(applyFilters(opts)), opts)

----------------------------------------------------------------------------
(* The store: what Query.exec and Query.countDocuments answer *)

IsOperatorKey(key) ==
    key \in {<<"$eq">>, <<"$ne">>, <<"$gt">>, <<"$gte">>, <<"$lt">>, <<"$lte">>,
             <<"$in">>, <<"$nin">>, <<"$exists">>}

\* equality of a stored value with a query value (null matches a missing field)
ValueEquals(stored, wanted) ==
    IF wanted.t = "null" THEN stored.t \in {"null", "undef"} ELSE stored = wanted

\* one operator clause on one stored value; ordering compares numbers only
OperatorMatches(stored, op, operand) ==
    CASE op = <<"$eq">> -> ValueEquals(stored, operand)
      [] op = <<"$ne">> -> ~ValueEquals(stored, operand)
      [] op = <<"$gt">> -> stored.t = "num" /\ operand.t = "num" /\ stored.n > operand.n
      [] op = <<"$gte">> -> stored.t = "num" /\ operand.t = "num" /\ stored.n >= operand.n
      [] op = <<"$lt">> -> stored.t = "num" /\ operand.t = "num" /\ stored.n < operand.n
      [] op = <<"$lte">> -> stored.t = "num" /\ operand.t = "num" /\ stored.n =< operand.n
      [] op = <<"$in">> ->
            \E i \in 1..Len(operand.o) : ValueEquals(stored, operand.o[i].v)
      [] op = <<"$nin">> ->
            \A i \in 1..Len(operand.o) : ~ValueEquals(stored, operand.o[i].v)
      [] op = <<"$exists">> -> (stored.t # "undef") <=> Truthy(operand)
      [] OTHER -> FALSE

\* the clause `field: condition` on one record
ClauseMatches(rec, field, condition) ==
    IF /\ condition.t = "obj" /\ Len(condition.o) > 0
       /\ \A i \in 1..Len(condition.o) : IsOperatorKey(condition.o[i].k)
    THEN \A i \in 1..Len(condition.o) :
            OperatorMatches(Get(rec, field), condition.o[i].k, condition.o[i].v)
    ELSE ValueEquals(Get(rec, field), condition)

\* the text index: a record matches a search when its bio is the search text
TextMatches(rec, text) == Get(rec, <<"bio">>) = Get(text, <<"$search">>)

\* does the record satisfy the filter
RECURSIVE Matches(_, _)
Matches(rec, filter) ==
    \A i \in 1..Len(filter.o) :
        CASE filter.o[i].k = AndKey ->
                \A j \in 1..Len(filter.o[i].v.o) : Matches(rec, filter.o[i].v.o[j].v)
          [] filter.o[i].k = <<"$text">> -> TextMatches(rec, filter.o[i].v)
          [] OTHER -> ClauseMatches(rec, filter.o[i].k, filter.o[i].v)

Matching(records, filter) == SelectSeq(records, LAMBDA rec : Matches(rec, filter))

\* the value a record is ordered by under one sort key (numbers and booleans)
SortValue(rec, key) ==
    IF Get(rec, key).t \in {"num", "bool"} THEN Get(rec, key).n ELSE 0

RECURSIVE Before(_, _, _)

BeforeBy(a, b, sortEntries, dir, va, vb) ==
    IF dir.t # "num" \/ va = vb THEN Before(a, b, Tail(sortEntries))
    ELSE IF dir.n > 0 THEN va < vb ELSE va > vb

\* does record a come strictly before record b under the sort specification
Before(a, b, sortEntries) ==
    IF sortEntries = <<>> THEN FALSE
    ELSE BeforeBy(a, b, sortEntries, Head(sortEntries).v,
                  SortValue(a, Head(sortEntries).k), SortValue(b, Head(sortEntries).k))

\* stable insertion of a record into an ordered sequence
RECURSIVE InsertSorted(_, _, _)
InsertSorted(sorted, rec, sortEntries) ==
    IF sorted = <<>> THEN <<rec>>
    ELSE IF Before(rec, Head(sorted), sortEntries)
         THEN <<rec>> \o sorted
         ELSE <<Head(sorted)>> \o InsertSorted(Tail(sorted), rec, sortEntries)

RECURSIVE SortRecords(_, _)
SortRecords(records, sortEntries) ==
    IF records = <<>> THEN <<>>
    ELSE InsertSorted(SortRecords(SubSeq(records, 1, Len(records) - 1), sortEntries),
                      records[Len(records)], sortEntries)

\* an inclusion projection keeps _id and the listed fields
Project(rec, projection) ==
    IF \E i \in 1..Len(projection.o) : projection.o[i].v = Num(1)
    THEN Obj(SelectSeq(rec.o, LAMBDA e : e.k = IdKey \/ Get(projection, e.k) = Num(1)))
    ELSE rec

\* the store refuses a negative skip
Refused(query) == query.skip.t = "num" /\ query.skip.n < 0

\* the absolute value
Abs(i) == IF i < 0 THEN 0 - i ELSE i

\* the last index of the window that starts at from and holds size records
WindowEnd(from, size, total) ==
    IF from + size - 1 < total THEN from + size - 1 ELSE total

\* skip and limit on the ordered matches (a negative limit counts as its
\* absolute value), then the projection
Window(ordered, query, from) ==
    [i \in 1..Len(SubSeq(ordered, from,
                         IF query.limit.t = "num"
                         THEN WindowEnd(from, Abs(query.limit.n), Len(ordered))
                         ELSE Len(ordered))) |->
        Project(ordered[from + i - 1], query.projection)]

\* Query.exec(): filter, order, skip, limit, project
Exec(records, query) ==
    Window(SortRecords(Matching(records, query.conditions), query.sort.o), query,
           IF query.skip.t = "num" THEN query.skip.n + 1 ELSE 1)

\* Query.countDocuments(): the number of records matching the conditions
CountDocuments(records, query) == Len(Matching(records, query.conditions))

----------------------------------------------------------------------------
(* QueryBuilderMiddleware: req.query and the middleware options to          *)
(* req.queryOptions                                                         *)

\* parseInt(x): the integer a string starts with, else NaN
RECURSIVE DigitPrefix(_)
DigitPrefix(chars) ==
    IF chars # <<>> /\ IsDigit(Head(chars))
    THEN <<Head(chars)>> \o DigitPrefix(Tail(chars)) ELSE <<>>

\* the integer of a sign and the digits a string starts with
SignedInt(negative, digits) ==
    IF digits = <<>> THEN NaN
    ELSE IF negative THEN Num(0 - DecimalVal(digits, 0))
    ELSE Num(DecimalVal(digits, 0))

ParseIntChars(chars) ==
    SignedInt(StartsWith(chars, "-"),
              DigitPrefix(IF StartsWith(chars, "-") THEN Tail(chars) ELSE chars))

ParseInt(x) ==
    IF x.t = "num" THEN x
    ELSE IF x.t # "str" THEN NaN
    ELSE ParseIntChars(TrimLeft(x.s))

\* Math.min(a, b)
MathMin(a, b) ==
    IF a.t # "num" \/ b.t # "num" THEN NaN ELSE IF a.n < b.n THEN a ELSE b

reservedParams ==
    {<<"select">>, <<"expand">>, <<"sort">>, <<"page">>, <<"limit">>, <<"offset">>,
     <<"cursor">>, <<"search">>, <<"fields">>, <<"searchLanguage">>, <<"searchScore">>}

\* key.endsWith("_in")
EndsWithIn(key) ==
    Len(key) >= 2 /\ key[Len(key) - 1] = "_" /\ key[Len(key)] = "in"

\* one iteration of the filter loop of the middleware
mwFilterStep(filters, key, value) ==
    IF key \notin reservedParams /\ value.t # "undef"
    THEN IF value.t = "str" /\ EndsWithIn(key) THEN Put(filters, key, Split(value))
         ELSE IF value.t = "str"
              THEN Put(filters, key, NumberOr(ToNumber(value), value))
              ELSE Put(filters, key, value)
    ELSE filters

RECURSIVE mwFilterLoop(_, _)
mwFilterLoop(filters, entries) ==
    IF entries = <<>> THEN filters
    ELSE mwFilterLoop(mwFilterStep(filters, Head(entries).k, Head(entries).v),
                      Tail(entries))

\* field.replace(/^-/, "")
StripMinus(chars) == IF StartsWith(chars, "-") THEN Tail(chars) ELSE chars

mwAllowed(fields, allowedFields) ==
    IF Truthy(allowedFields)
    THEN ArrOf(SelectSeq(Elems(fields),
             LAMBDA f : ArrIncludes(allowedFields, Str(StripMinus(f.s)))))
    ELSE fields

mwFields(selectFields, allowedFields) ==
    mwAllowed(trimmedItems(SplitOn(selectFields.s, ",")), allowedFields)

\* one step of the character loop of the expand parser; st = [expands,
\* currentPath, buffer, inParentheses]
mwExpandChar(st, char) ==
    IF char = "(" /\ ~st.inParentheses
    THEN [st EXCEPT !.inParentheses = TRUE,
                    !.currentPath = Trim(st.buffer), !.buffer = <<>>]
    ELSE IF char = ")" /\ st.inParentheses
    THEN [st EXCEPT !.inParentheses = FALSE, !.buffer = <<>>,
             !.expands = Append(st.expands,
                 Obj(<<Entry(<<"path">>, Str(st.currentPath)),
                       Entry(<<"select">>, trimmedItems(SplitOn(st.buffer, ",")))>>))]
    ELSE IF char = "," /\ ~st.inParentheses
    THEN [st EXCEPT !.buffer = <<>>,
             !.expands = IF Trim(st.buffer) # <<>>
                         THEN Append(st.expands,
                                  Obj(<<Entry(<<"path">>, Str(Trim(st.buffer)))>>))
                         ELSE st.expands]
    ELSE [st EXCEPT !.buffer = Append(st.buffer, char)]

RECURSIVE mwExpandLoop(_, _)
mwExpandLoop(st, chars) ==
    IF chars = <<>> THEN st
    ELSE mwExpandLoop(mwExpandChar(st, Head(chars)), Tail(chars))

\* the last item, after the loop
mwExpandEnd(st) ==
    ArrOf(IF Trim(st.buffer) # <<>>
          THEN Append(st.expands, Obj(<<Entry(<<"path">>, Str(Trim(st.buffer)))>>))
          ELSE st.expands)

\* an expand parser that splits on every comma
mwExpand_naiveSplit(expandStr) == pathItems(SplitOn(expandStr.s, ","))

mwExpand(expandStr) ==
    mwExpandEnd(mwExpandLoop([expands |-> <<>>, currentPath |-> <<>>,
                              buffer |-> <<>>, inParentheses |-> FALSE], expandStr.s))

validOrders == {<<"asc">>, <<"desc">>}

\* { field, order } or null when the order is not valid
mwSortEntry(field, order) ==
    IF ToLowerCase(order) \in validOrders
    THEN Obj(<<Entry(<<"field">>, Str(Trim(field))),
               Entry(<<"order">>, Str(ToLowerCase(order)))>>)
    ELSE Null

mwSortParts(parts) ==
    mwSortEntry(parts[1], IF Len(parts) >= 2 THEN parts[2] ELSE <<"asc">>)

\* "field:order" => { field, order } or null
mwSortItem(chars) == mwSortParts(SplitOn(chars, ":"))

\* queryOptions.sort = sortFields when there are any
mwSetSort(queryOptions, sortFields) ==
    IF Len(sortFields) > 0
    THEN Put(queryOptions, <<"sort">>, ArrOf(sortFields)) ELSE queryOptions

mwSortMany(queryOptions, items) ==
    mwSetSort(queryOptions,
              SelectSeq([i \in 1..Len(items) |-> mwSortItem(items[i])],
                        LAMBDA f : Truthy(f)))

\* the sort part: queryOptions with its sort key set, or unchanged
mwSort(queryOptions, sortParam) ==
    IF Includes(sortParam.s, ",")
    THEN mwSortMany(queryOptions, SplitOn(sortParam.s, ","))
    ELSE mwSetSort(queryOptions,
                   SelectSeq(<<mwSortItem(sortParam.s)>>, LAMBDA f : Truthy(f)))

DefaultMaxLimit == 100

\* options.routeConfig?.[req.path] || {}
mwRouteConfig(options, path) ==
    OrElse(Get(Get(options, <<"routeConfig">>), path), EmptyObj)

\* the maxLimit the middleware resolves for a request
mwMaxLimit(options, routeConfig) ==
    Default(Get(options, <<"maxLimit">>),
            OrElse(Get(routeConfig, <<"maxLimit">>), Num(DefaultMaxLimit)))

\* the defaultLimit the middleware resolves for a request
mwDefaultLimit(options, routeConfig) ==
    Default(Get(options, <<"defaultLimit">>),
            OrElse(Get(routeConfig, <<"defaultLimit">>), Num(DefaultLimit)))

mwAllowedFields(options, routeConfig) ==
    Default(Get(options, <<"allowedFields">>), Get(routeConfig, <<"allowedFields">>))

mwRestrictedFields(options, routeConfig) ==
    Default(Get(options, <<"restrictedFields">>),
            OrElse(Get(routeConfig, <<"restrictedFields">>), Arr(<<>>)))

mwDefaultFilters(options, routeConfig) ==
    Default(Get(options, <<"defaultFilters">>),
            Spread(Get(options, <<"defaultFilters">>),
                   Get(routeConfig, <<"defaultFilters">>)))

\* the parts of the handler, each on the queryOptions built so far
mwWithDefaultFilters(qo, defaultFilters) ==
    IF Truthy(defaultFilters) THEN Put(qo, <<"defaultFilters">>, defaultFilters) ELSE qo

mwWithFields(qo, query, allowedFields) ==
    IF Truthy(Get(query, <<"select">>)) \/ Truthy(Get(query, <<"fields">>))
    THEN Put(qo, <<"fields">>,
             mwFields(OrElse(Get(query, <<"select">>), Get(query, <<"fields">>)),
                      allowedFields))
    ELSE qo

mwWithExpand(qo, query) ==
    IF Truthy(Get(query, <<"expand">>))
    THEN Put(qo, <<"expand">>, mwExpand(Get(query, <<"expand">>))) ELSE qo

mwWithSort(qo, query) ==
    IF Truthy(Get(query, <<"sort">>)) THEN mwSort(qo, Get(query, <<"sort">>)) ELSE qo

\* a pagination that forgets Math.min
mwPagination_uncapped(query, defaultLimit, maxLimit) ==
    Obj(<<Entry(<<"page">>,
                OrElse(ParseInt(Get(query, <<"page">>)), Num(DefaultPage))),
          Entry(<<"limit">>,
                OrElse(ParseInt(Get(query, <<"limit">>)), defaultLimit))>>)

mwPagination(query, defaultLimit, maxLimit) ==
    Obj(<<Entry(<<"page">>,
                OrElse(ParseInt(Get(query, <<"page">>)), Num(DefaultPage))),
          Entry(<<"limit">>,
                MathMin(OrElse(ParseInt(Get(query, <<"limit">>)), defaultLimit),
                        maxLimit))>>)

mwWithCursor(pagination, query) ==
    IF Truthy(Get(query, <<"cursor">>))
    THEN Put(pagination, <<"cursor">>, Get(query, <<"cursor">>)) ELSE pagination

mwWithPagination(qo, query, defaultLimit, maxLimit) ==
    Put(qo, <<"pagination">>,
        mwWithCursor(mwPagination(query, defaultLimit, maxLimit), query))

mwWithLanguage(search, query) ==
    IF Truthy(Get(query, <<"searchLanguage">>))
    THEN Put(search, <<"language">>, Get(query, <<"searchLanguage">>)) ELSE search

mwWithSearch(qo, query) ==
    IF Truthy(Get(query, <<"search">>))
    THEN Put(qo, <<"fullTextSearch">>,
             Put(mwWithLanguage(Obj(<<Entry(<<"searchText">>, Get(query, <<"search">>))>>),
                                query),
                 <<"sortByScore">>, Bool(Get(query, <<"searchScore">>) = Str(TrueChars))))
    ELSE qo

mwWithRestricted(qo, restrictedFields) ==
    IF Len(restrictedFields.o) > 0
    THEN Put(qo, <<"restrictedFields">>, restrictedFields) ELSE qo

\* the handler once the route configuration is looked up
mwHandle(options, query, routeConfig) ==
    mwWithRestricted(
        mwWithSearch(
            mwWithPagination(
                mwWithSort(
                    mwWithExpand(
                        mwWithFields(
                            mwWithDefaultFilters(
                                Obj(<<Entry(<<"filters">>, mwFilterLoop(EmptyObj, query.o))>>),
                                mwDefaultFilters(options, routeConfig)),
                            query, mwAllowedFields(options, routeConfig)),
                        query),
                    query),
                query, mwDefaultLimit(options, routeConfig),
                mwMaxLimit(options, routeConfig)),
            query),
        mwRestrictedFields(options, routeConfig))

\* the request handler: req.queryOptions for options and req = [path, query]
QueryBuilderMiddleware(options, req) ==
    mwHandle(options, req.query, mwRouteConfig(options, req.path))

----------------------------------------------------------------------------
(* graph(): the state machine of one call *)

VARIABLES
    pc,            \* "request", "call", "awaitData", "awaitCount", "returned", "rejected"
    mwOptions,     \* the options the middleware was created with
    req,           \* the request: [path, query]
    queryOptions,  \* req.queryOptions
    config,        \* the argument of graph
    store,         \* the records of the collection, in natural order
    options,       \* the normalized options of the call
    query,         \* the data query handed to the store
    countQuery,    \* the count query handed to the store
    data,          \* the records the data query returned
    envelope,      \* what graph returned
    error,         \* what graph rejected with
    ops            \* what the call asked of its collaborators, and what they answered

vars == <<pc, mwOptions, req, queryOptions, config, store, options, query,
          countQuery, data, envelope, error, ops>>

\* the model names registered with mongoose
RegisteredModels == {<<"User">>}

\* a compiled Mongoose model is a constructor function with a find method
ModelFunction ==
    [t |-> "fn", n |-> 0, s |-> <<"User">>, o |-> <<Entry(<<"find">>, Undef)>>]

\* Math.ceil(a / b) for b # 0
CeilPositive(x, y) ==
    IF x >= 0 THEN (x + y - 1) \div y ELSE 0 - ((0 - x) \div y)

\* a division that rounds down instead of up
MathCeilDiv_floor(a, b) == IF b > 0 /\ a >= 0 THEN a \div b ELSE 0

MathCeilDiv(a, b) == IF b < 0 THEN CeilPositive(0 - a, 0 - b) ELSE CeilPositive(a, b)

NoError == [kind |-> "none", detail |-> <<>>]

NoEnvelope ==
    [data |-> <<>>,
     metadata |-> [totalCount |-> 0, currentPage |-> 0, pageSize |-> 0,
                   totalPages |-> 0, hasNextPage |-> FALSE, hasPrevPage |-> FALSE,
                   executionTimeMs |-> 0,
                   query |-> [filters |-> Undef, sort |-> Undef, pagination |-> Undef,
                              fields |-> Undef, fullTextSearch |-> Undef]]]

NoOptions == normalizeOptions(
    [fields |-> Undef, filters |-> Undef, pagination |-> Undef, sort |-> Undef,
     expand |-> Undef, fullTextSearch |-> Undef, defaultFilters |-> Undef,
     restrictedFields |-> Undef])

\* given is the config as the caller wrote it and calls counts the calls
\* the caller made with one defaultFilters object
NoOps ==
    [lookups |-> 0, dataQueries |-> 0, countQueries |-> 0, writes |-> 0,
     storeError |-> <<>>, countedStore |-> <<>>, given |-> <<>>, calls |-> 1]

\* transformSortingToRecord
RECURSIVE sortRecordLoop(_, _)
sortRecordLoop(sortRecord, items) ==
    IF items = <<>> THEN sortRecord
    ELSE sortRecordLoop(Put(sortRecord, Get(Head(items).v, <<"field">>).s,
                            Get(Head(items).v, <<"order">>)),
                        Tail(items))

transformSortingToRecord(sorting) ==
    IF ~Truthy(sorting) THEN Undef ELSE sortRecordLoop(EmptyObj, sorting.o)

\* the metadata for the page and limit graph reads back from the options
metadataOf(opts, totalCount, executionTimeMs, page, limit, totalPages) ==
    [totalCount |-> totalCount, currentPage |-> page,
     pageSize |-> limit, totalPages |-> totalPages,
     hasNextPage |-> page < totalPages, hasPrevPage |-> page > 1,
     executionTimeMs |-> executionTimeMs,
     query |-> [filters |-> opts.filters,
                sort |-> transformSortingToRecord(opts.sorting),
                pagination |-> opts.pagination,
                fields |-> opts.selectFields,
                fullTextSearch |-> opts.fullTextSearch]]

pagedMetadata(opts, totalCount, executionTimeMs, page, limit) ==
    metadataOf(opts, totalCount, executionTimeMs, page, limit,
               MathCeilDiv(totalCount, limit))

\* the envelope graph returns for the data, the total count and the elapsed time
MakeEnvelope(opts, rows, totalCount, executionTimeMs) ==
    [data |-> rows,
     metadata |-> pagedMetadata(opts, totalCount, executionTimeMs,
                      Default(Get(opts.pagination, <<"page">>), Num(DefaultPage)).n,
                      Default(Get(opts.pagination, <<"limit">>), Num(DefaultLimit)).n)]

\* the route handler's call: graph({ entity, ...req.queryOptions })
handlerConfig(entity, qo) ==
    [entity |-> entity,
     fields |-> Get(qo, <<"fields">>),
     filters |-> Get(qo, <<"filters">>),
     pagination |-> Get(qo, <<"pagination">>),
     sort |-> Get(qo, <<"sort">>),
     expand |-> Get(qo, <<"expand">>),
     fullTextSearch |-> Get(qo, <<"fullTextSearch">>),
     defaultFilters |-> Get(qo, <<"defaultFilters">>),
     restrictedFields |-> Get(qo, <<"restrictedFields">>)]

\* an entity resolution that takes every name for a registered model
resolveEntity_unchecked(entity) ==
    IF entity.t = "str" \/ (Truthy(entity) /\ TypeofObject(entity) /\ Has(entity, <<"find">>))
    THEN "model"
    ELSE "invalid"

\* the outcome of resolving config.entity
resolveEntity(entity) ==
    IF entity.t = "str"
    THEN IF entity.s \in RegisteredModels THEN "model" ELSE "notFound"
    ELSE IF Truthy(entity) /\ TypeofObject(entity) /\ Has(entity, <<"find">>)
         THEN "model"
         ELSE "invalid"

\* bounds of the environment
MaxElapsedMs == 1

MaxWrites == 1

StoreErrors == {<<"timeout">>, <<"disconnected">>}

\* the middleware runs and the route handler calls graph with its output
Middleware ==
    /\ pc = "request"
    /\ queryOptions' = QueryBuilderMiddleware(mwOptions, req)
    /\ config' = handlerConfig(Str(<<"User">>), queryOptions')
    /\ ops' = [ops EXCEPT !.given = config']
    /\ pc' = "call"
    /\ UNCHANGED <<mwOptions, req, store, options, query, countQuery, data,
                   envelope, error>>

\* graph from the resolved entity to its first await
graphBuilt(outcome, opts, built) ==
    CASE outcome = "notFound" ->
            /\ pc' = "rejected"
            /\ error' = [kind |-> "ModelNotFound", detail |-> config.entity.s]
            /\ UNCHANGED <<options, query>>
      [] outcome = "invalid" ->
            /\ pc' = "rejected"
            /\ error' = [kind |-> "InvalidEntity", detail |-> <<>>]
            /\ UNCHANGED <<options, query>>
      [] outcome = "model" /\ IsThrown(built.conditions) ->
            /\ pc' = "rejected"
            /\ error' = [kind |-> "TypeError", detail |-> <<>>]
            /\ options' = opts
            /\ UNCHANGED query
      [] OTHER ->
            /\ pc' = "awaitData"
            /\ options' = opts
            /\ query' = built
            /\ UNCHANGED error

\* buildQuery ran applyFilters on the options: what it wrote shows in the
\* options and in the config object they were made from
graphWritten(outcome, opts, written) ==
    /\ graphBuilt(outcome, optionsWritten(opts, written), buildQuery(opts))
    /\ config' = IF outcome = "model" THEN configWritten(config, opts, written)
                 ELSE config

graphNormalized(outcome, opts) ==
    graphWritten(outcome, opts, applyFiltersShared(opts))

\* graph up to its first await: entity resolution, normalizeOptions,
\* buildQuery and the start of query.exec()
GraphStart ==
    /\ pc = "call"
    /\ graphNormalized(resolveEntity(config.entity), normalizeOptions(config))
    /\ ops' = [ops EXCEPT !.lookups = IF config.entity.t = "str" THEN 1 ELSE 0,
                          !.dataQueries = IF pc' = "awaitData" THEN 1 ELSE 0]
    /\ UNCHANGED <<mwOptions, req, queryOptions, store, countQuery, data, envelope>>

\* buildCountQuery ran applyFilters a second time on the same options
countBuilt(written) ==
    /\ countQuery' = buildCountQuery(options)
    /\ options' = optionsWritten(options, written)
    /\ config' = configWritten(config, options, written)

\* query.exec() resolves; without pagination graph returns, with pagination
\* it builds the count query and starts countDocuments()
DataResolve ==
    /\ pc = "awaitData"
    /\ ~Refused(query)
    /\ data' = Exec(store, query)
    /\ IF Truthy(options.pagination)
       THEN /\ countBuilt(applyFiltersShared(options))
            /\ ops' = [ops EXCEPT !.countQueries = @ + 1]
            /\ pc' = "awaitCount"
            /\ UNCHANGED envelope
       ELSE /\ \E ms \in 0..MaxElapsedMs :
                  envelope' = MakeEnvelope(options, data', Len(data'), ms)
            /\ pc' = "returned"
            /\ UNCHANGED <<countQuery, ops, options, config>>
    /\ UNCHANGED <<mwOptions, req, queryOptions, store, query, error>>

\* query.exec() rejects: graph rejects with the same error
DataReject ==
    /\ pc = "awaitData"
    /\ \E e \in StoreErrors :
          /\ error' = [kind |-> "StorageError", detail |-> e]
          /\ ops' = [ops EXCEPT !.storeError = e]
    /\ pc' = "rejected"
    /\ UNCHANGED <<mwOptions, req, queryOptions, config, store, options, query,
                   countQuery, data, envelope>>

\* countDocuments() resolves and graph returns the envelope
CountResolve ==
    /\ pc = "awaitCount"
    /\ \E ms \in 0..MaxElapsedMs :
          envelope' = MakeEnvelope(options, data, CountDocuments(store, countQuery), ms)
    /\ ops' = [ops EXCEPT !.countedStore = store]
    /\ pc' = "returned"
    /\ UNCHANGED <<mwOptions, req, queryOptions, config, store, options, query,
                   countQuery, data, error>>

\* a count failure that is swallowed: graph returns an envelope of zero records
CountReject_swallowed ==
    /\ pc = "awaitCount"
    /\ \E e \in StoreErrors : ops' = [ops EXCEPT !.storeError = e]
    /\ envelope' = MakeEnvelope(options, data, 0, 0)
    /\ pc' = "returned"
    /\ UNCHANGED <<mwOptions, req, queryOptions, config, store, options, query,
                   countQuery, data, error>>

\* countDocuments() rejects: graph rejects with the same error
CountReject ==
    /\ pc = "awaitCount"
    /\ \E e \in StoreErrors :
          /\ error' = [kind |-> "StorageError", detail |-> e]
          /\ ops' = [ops EXCEPT !.storeError = e]
    /\ pc' = "rejected"
    /\ UNCHANGED <<mwOptions, req, queryOptions, config, store, options, query,
                   countQuery, data, envelope>>

----------------------------------------------------------------------------
(* Records, stores and other clients *)

FirstName == <<"first", "_", "name">>

MkRecord(id, isDeleted, age, name, bio) ==
    Obj(<<Entry(IdKey, Num(id)),
          Entry(<<"isDeleted">>, Bool(isDeleted)),
          Entry(<<"age">>, Num(age)),
          Entry(FirstName, Str(name)),
          Entry(<<"bio">>, Str(bio)),
          Entry(<<"secret">>, Str(<<"k">>))>>)

\* four users that differ in every field the filters of the model look at
SmallStore ==
    <<MkRecord(1, FALSE, 25, <<"john">>, <<"dev">>),
      MkRecord(2, TRUE, 30, <<"jane">>, <<"ops">>),
      MkRecord(3, FALSE, 20, <<"john">>, <<>>),
      MkRecord(4, TRUE, 0, <<"jane">>, <<"dev">>)>>

\* n active users of ages 21, 22, 23, 21, ...
UniformStore(n) ==
    [i \in 1..n |-> MkRecord(i, FALSE, 21 + (i % 3), <<"john">>, <<"dev">>)]

\* what another client may insert while a call is in flight
InsertChoices ==
    {MkRecord(90, FALSE, 30, <<"john">>, <<"dev">>),
     MkRecord(91, TRUE, 22, <<"jane">>, <<"ops">>)}

RemoveAt(seq, i) == SubSeq(seq, 1, i - 1) \o SubSeq(seq, i + 1, Len(seq))

\* another client inserts or deletes a record between the steps of a call
OtherClientWrite ==
    /\ pc \in {"awaitData", "awaitCount"}
    /\ ops.writes < MaxWrites
    /\ \/ \E rec \in InsertChoices : store' = Append(store, rec)
       \/ \E i \in 1..Len(store) : store' = RemoveAt(store, i)
    /\ ops' = [ops EXCEPT !.writes = @ + 1]
    /\ UNCHANGED <<pc, mwOptions, req, queryOptions, config, options, query,
                   countQuery, data, envelope, error>>

Next ==
    \/ Middleware
    \/ GraphStart
    \/ DataResolve
    \/ DataReject
    \/ CountResolve
    \/ CountReject
    \/ OtherClientWrite

\* the steps of a call that a caller makes directly, without the middleware
NextDirect ==
    \/ GraphStart
    \/ DataResolve
    \/ DataReject
    \/ CountResolve
    \/ CountReject
    \/ OtherClientWrite

----------------------------------------------------------------------------
(* Inputs *)

Obj1(k, v) == Obj(<<Entry(k, v)>>)

Obj2(k1, v1, k2, v2) == Obj(<<Entry(k1, v1), Entry(k2, v2)>>)

NoConfig ==
    [entity |-> Undef, fields |-> Undef, filters |-> Undef, pagination |-> Undef,
     sort |-> Undef, expand |-> Undef, fullTextSearch |-> Undef,
     defaultFilters |-> Undef, restrictedFields |-> Undef]

BaseConfig == [NoConfig EXCEPT !.entity = Str(<<"User">>)]

NoRequest == [path |-> <<>>, query |-> EmptyObj]

Page(p, l) == Obj2(<<"page">>, Num(p), <<"limit">>, Num(l))

\* a direct call of graph with the given config on the given store
InitDirect(cfg, records) ==
    /\ pc = "call"
    /\ mwOptions = EmptyObj
    /\ req = NoRequest
    /\ queryOptions = Undef
    /\ config = cfg
    /\ store = records
    /\ options = NoOptions
    /\ query = NewQuery
    /\ countQuery = NewQuery
    /\ data = <<>>
    /\ envelope = NoEnvelope
    /\ error = NoError
    /\ ops = [NoOps EXCEPT !.given = cfg]

\* a request that goes through the middleware to graph
InitRequest(mwo, request, records) ==
    /\ pc = "request"
    /\ mwOptions = mwo
    /\ req = request
    /\ queryOptions = Undef
    /\ config = NoConfig
    /\ store = records
    /\ options = NoOptions
    /\ query = NewQuery
    /\ countQuery = NewQuery
    /\ data = <<>>
    /\ envelope = NoEnvelope
    /\ error = NoError
    /\ ops = NoOps

DefaultFilterChoices ==
    {Undef,
     Obj1(<<"isDeleted">>, Bool(FALSE)),
     Obj1(<<"isDeleted">>, Bool(TRUE)),
     Obj1(<<"age">>, Num(0)),
     Obj1(<<"age">>, Num(25)),
     Obj1(<<"bio">>, Str(<<>>)),
     Obj1(<<"bio">>, Str(<<"dev">>)),
     Obj1(<<"age", "_", "gte">>, Num(20)),
     Obj2(<<"age", "_", "gte">>, Num(20), <<"isDeleted">>, Bool(FALSE))}

UserFilterChoices ==
    {Undef,
     Obj1(<<"isDeleted">>, Bool(TRUE)),
     Obj1(<<"isDeleted">>, Bool(FALSE)),
     Obj1(<<"age">>, Num(30)),
     Obj1(<<"age">>, Num(0)),
     Obj1(<<"bio">>, Str(<<"ops">>)),
     Obj1(<<"age", "_", "gt">>, Num(20)),
     Obj1(<<"age", "_", "gte">>, Num(0)),
     Obj1(<<"age", "_", "lt">>, Str(<<"3", "0">>)),
     Obj2(<<"age", "_", "gte">>, Num(25), <<"age", "_", "lt">>, Num(31)),
     Obj2(<<"age">>, Num(25), <<"age", "_", "gt">>, Num(20)),
     Obj1(FirstName, Str(<<"jane">>)),
     Obj1(<<"created", "_", "at">>, Num(7))}

SearchChoices ==
    {Undef,
     Obj1(<<"searchText">>, Str(<<"dev">>)),
     Obj2(<<"searchText">>, Str(<<"dev">>), <<"sortByScore">>, Bool(TRUE))}

EntityChoices ==
    {Str(<<"User">>), Str(<<"Ghost">>), ModelFunction,
     Obj1(<<"find">>, Undef), Num(5), Null, EmptyObj}

FieldChoices ==
    {Undef,
     StrArr(<<<<"age">>, <<"secret">>>>),
     Str(<<"age", ",", " ", "secret">>),
     Obj2(<<"age">>, Num(1), <<"secret">>, Num(1)),
     StrArr(<<<<"-", "secret">>, MinusId>>)}

ExpandChoices ==
    {Undef,
     Str(<<"posts", ",", "secret">>),
     ArrOf(<<Obj2(<<"path">>, Str(<<"posts">>),
                  <<"select">>, StrArr(<<<<"title">>, <<"secret">>>>))>>)}

SortChoices ==
    {Undef,
     Str(<<"age", ":", "desc", ",", "isDeleted">>),
     ArrOf(<<Obj2(<<"field">>, Str(<<"secret">>), <<"order">>, Str(<<"asc">>))>>)}

RestrictedChoices == {Undef, StrArr(<<<<"secret">>>>)}

\* calls that vary the two filter sets, the search and the pagination
FilterConfigs ==
    {[BaseConfig EXCEPT !.defaultFilters = d, !.filters = u,
                        !.fullTextSearch = f, !.pagination = p] :
        d \in DefaultFilterChoices, u \in UserFilterChoices,
        f \in {Undef, Obj1(<<"searchText">>, Str(<<"dev">>))},
        p \in {Undef, Page(1, 2)}}

\* calls that vary the entity
EntityConfigs ==
    {[BaseConfig EXCEPT !.entity = e, !.pagination = p] :
        e \in EntityChoices, p \in {Undef, Page(1, 2)}}

\* calls that vary selection, expansion, sort and the restricted fields
SelectConfigs ==
    {[BaseConfig EXCEPT !.fields = f, !.expand = x, !.sort = o,
                        !.restrictedFields = r, !.fullTextSearch = t,
                        !.filters = u] :
        f \in FieldChoices, x \in ExpandChoices, o \in SortChoices,
        r \in RestrictedChoices, t \in SearchChoices,
        u \in {Undef, Obj1(<<"secret">>, Str(<<"k">>))}}

Query1(k, v) == Obj1(<<k>>, Str(v))

\* requests and middleware options of the general specification
RequestChoices ==
    {[path |-> <<"/users">>, query |-> q] :
        q \in {EmptyObj,
               Query1("limit", <<"5">>),
               Query1("select", <<"age", ",", "secret">>),
               Query1("secret", <<"k">>),
               Query1("expand", <<"posts", "(", "title", ",", "secret", ")", ",", "tags">>),
               Query1("sort", <<"age", ":", "DESC", ",", "isDeleted">>),
               Obj2(<<"search">>, Str(<<"dev">>), <<"searchScore">>, Str(TrueChars)),
               Obj2(<<"isDeleted">>, Str(TrueChars), <<"page">>, Str(<<"2">>))}}

MiddlewareChoices ==
    {EmptyObj,
     Obj1(<<"restrictedFields">>, StrArr(<<<<"secret">>>>)),
     Obj(<<Entry(<<"maxLimit">>, Num(2)), Entry(<<"defaultLimit">>, Num(3)),
           Entry(<<"defaultFilters">>, Obj1(<<"isDeleted">>, Bool(FALSE)))>>)}

Init ==
    \/ \E cfg \in FilterConfigs \cup EntityConfigs \cup SelectConfigs :
          InitDirect(cfg, SmallStore)
    \/ \E mwo \in MiddlewareChoices, request \in RequestChoices :
          InitRequest(mwo, request, SmallStore)

Spec == Init /\ [][Next]_vars

----------------------------------------------------------------------------
(* Pagination: calls that vary page, limit and the size of the collection *)

MaxPage == 3

MaxLimit == 3

MaxStoreSize == 12

PaginationChoices ==
    {Undef, EmptyObj} \cup {Page(p, l) : p \in 0..MaxPage, l \in 0..MaxLimit}

PagingConfigs ==
    {[BaseConfig EXCEPT !.pagination = p, !.filters = u] :
        p \in PaginationChoices,
        u \in {Undef, Obj1(<<"age", "_", "gt">>, Num(21))}}

PagingRequests ==
    {[path |-> <<"/users">>, query |-> q] :
        q \in {EmptyObj, Obj2(<<"page">>, Str(<<"2">>), <<"limit">>, Str(<<"2">>))}}

InitPaging ==
    \/ \E cfg \in PagingConfigs, n \in 0..MaxStoreSize :
          InitDirect(cfg, UniformStore(n))
    \/ \E request \in PagingRequests, n \in {3, MaxStoreSize} :
          InitRequest(EmptyObj, request, UniformStore(n))

SpecPaging == InitPaging /\ [][Next]_vars

----------------------------------------------------------------------------
(* Middleware: requests and configurations that vary the limits *)

MaxConfiguredLimit == 3

UsersPath == <<"/users">>

ConfiguredMaxChoices == {Undef} \cup {Num(i) : i \in 1..MaxConfiguredLimit}

ConfiguredDefaultChoices == {Undef, Num(1), Num(MaxConfiguredLimit + 1), Num(200)}

\* the limit a request asks for: none, "0", "2", "5", "150", "abc", "-2"
RequestedLimitChoices ==
    {Undef, Str(<<"0">>), Str(<<"2">>), Str(<<"5">>), Str(<<"1", "5", "0">>),
     Str(<<"abc">>), Str(<<"-", "2">>)}

\* an object of the entries whose value is defined
Defined(entries) == Obj(SelectSeq(entries, LAMBDA e : e.v.t # "undef"))

LimitOptions ==
    {Defined(<<Entry(<<"maxLimit">>, m), Entry(<<"defaultLimit">>, d),
               Entry(<<"routeConfig">>,
                     Obj1(UsersPath,
                          Defined(<<Entry(<<"maxLimit">>, rm),
                                    Entry(<<"defaultLimit">>, rd)>>)))>>) :
        m \in ConfiguredMaxChoices, d \in ConfiguredDefaultChoices,
        rm \in ConfiguredMaxChoices, rd \in {Undef, Num(200)}}

LimitRequests ==
    {[path |-> path, query |-> Defined(<<Entry(<<"limit">>, l)>>)] :
        path \in {UsersPath, <<"/other">>}, l \in RequestedLimitChoices}

InitMiddleware ==
    \E mwo \in LimitOptions, request \in LimitRequests :
        InitRequest(mwo, request, UniformStore(2))

SpecMiddleware == InitMiddleware /\ [][Next]_vars

----------------------------------------------------------------------------
(* Properties of graph() and of the middleware *)

\* the data query was handed to the store
Issued == ops.dataQueries = 1

\* both conditions are operator maps and share an operator key
SharedOperator(d, u) ==
    /\ d.t = "obj"
    /\ u.t = "obj"
    /\ \E i \in 1..Len(d.o) : Has(u, d.o[i].k)

\* the record satisfies the default clause, or the field is one where the
\* user's operator map repeats an operator of the default's
HonoursDefault(rec, clause, userQuery) ==
    \/ SharedOperator(clause.v, Get(userQuery, clause.k))
    \/ ClauseMatches(rec, clause.k, clause.v)

HonoursDefaults(rec, defaultQuery, userQuery) ==
    \A i \in 1..Len(defaultQuery.o) : HonoursDefault(rec, defaultQuery.o[i], userQuery)

\* C1: every record that matches the filter sent to the store satisfies every
\* clause of defaultFilters, falsy values (false, 0, "") included, except on a
\* field where both sides are operator maps and the user repeats an operator.
C1_DefaultFiltersEnforced ==
    Issued =>
        \A r \in 1..Len(store) :
            Matches(store[r], query.conditions) =>
                HonoursDefaults(store[r], buildFilterQuery(options.defaultFilters),
                                buildFilterQuery(options.filters))

\* the filter has a clause on the field, directly or in its $and list
FilterMentions(filter, field) ==
    \E i \in 1..Len(filter.o) :
        \/ filter.o[i].k = field
        \/ /\ filter.o[i].k = AndKey
           /\ \E j \in 1..Len(filter.o[i].v.o) : Has(filter.o[i].v.o[j].v, field)

\* a populate entry names the field as its path or includes it in its selection
PopulateMentions(populate, field) ==
    \E i \in 1..Len(populate.o) :
        \/ Get(populate.o[i].v, <<"path">>) = Str(field)
        \/ Get(Get(populate.o[i].v, <<"select">>), field) = Num(1)

QueryMentions(q, field) ==
    \/ Get(q.projection, field) = Num(1)
    \/ FilterMentions(q.conditions, field)
    \/ PopulateMentions(q.populate, field)

\* C2: a field listed in restrictedFields never appears in the projection, in
\* a filter clause or in a populate path or sub-selection of the native query.
C2_RestrictedFieldsExcluded ==
    Issued =>
        \A i \in 1..Len(config.restrictedFields.o) :
            ~QueryMentions(query, config.restrictedFields.o[i].v.s)

\* the number of records of the collection that satisfy the filter
NumberMatching(records, filter) ==
    Cardinality({i \in 1..Len(records) : Matches(records[i], filter)})

\* C3: with pagination, the count query carries the filter of the data query
\* (merged filters and text search), no skip and no limit, and totalCount is
\* the number of records matching it; without pagination totalCount is the
\* length of data.
C3_TotalCount ==
    pc = "returned" =>
        IF Truthy(config.pagination)
        THEN /\ countQuery.conditions = query.conditions
             /\ countQuery.skip = Undef
             /\ countQuery.limit = Undef
             /\ envelope.metadata.totalCount =
                    NumberMatching(ops.countedStore, query.conditions)
        ELSE envelope.metadata.totalCount = Len(envelope.data)

\* a paginated, filtered text search whose count exceeds the page returned
C3_Witness ==
    /\ pc = "returned"
    /\ Truthy(config.pagination)
    /\ Truthy(config.fullTextSearch)
    /\ Truthy(config.filters)
    /\ envelope.metadata.totalCount > Len(envelope.data)
    /\ envelope.metadata.totalCount < Len(ops.countedStore)

\* the page or limit the caller asked for, or the default
RequestedOr(key, default) ==
    IF Truthy(Get(config.pagination, key)) THEN Get(config.pagination, key).n
    ELSE default

\* pages is the least number of pages of the given size that hold count records
IsCeiling(pages, count, size) ==
    /\ pages * size >= count
    /\ (pages - 1) * size < count

\* C4: the metadata reports the page and limit used for skip and limit
\* (1 and 10 when unspecified), totalPages = ceil(totalCount / pageSize),
\* hasNextPage = currentPage < totalPages and hasPrevPage = currentPage > 1.
C4_PageMetadata ==
    pc = "returned" =>
        /\ envelope.metadata.currentPage = RequestedOr(<<"page">>, 1)
        /\ envelope.metadata.pageSize = RequestedOr(<<"limit">>, 10)
        /\ Truthy(config.pagination) =>
              /\ query.limit = Num(envelope.metadata.pageSize)
              /\ query.skip = Num((envelope.metadata.currentPage - 1)
                                  * envelope.metadata.pageSize)
        /\ IsCeiling(envelope.metadata.totalPages, envelope.metadata.totalCount,
                     envelope.metadata.pageSize)
        /\ envelope.metadata.hasNextPage
              = (envelope.metadata.currentPage < envelope.metadata.totalPages)
        /\ envelope.metadata.hasPrevPage = (envelope.metadata.currentPage > 1)

\* a middle page of a collection whose size is no multiple of the page size
C4_Witness ==
    /\ pc = "returned"
    /\ Truthy(config.pagination)
    /\ envelope.metadata.currentPage = 2
    /\ envelope.metadata.totalPages > 2
    /\ envelope.metadata.totalCount % envelope.metadata.pageSize # 0
    /\ envelope.metadata.hasNextPage
    /\ envelope.metadata.hasPrevPage

\* the number of records the data query skipped
Skipped == IF query.skip.t = "num" THEN query.skip.n ELSE 0

\* C5: hasNextPage is true exactly when matching records come after the last
\* record of data (no other client writing during the call); it is false when
\* no pagination was requested and data holds every match.
C5_HasNextPage ==
    (pc = "returned" /\ ops.writes = 0) =>
        (envelope.metadata.hasNextPage
            <=> NumberMatching(store, query.conditions) > Skipped + Len(envelope.data))

\* the maximum the configuration declares for the path: the middleware's own
\* maxLimit, else the route's, else 100
ConfiguredMaximum(mwo, path) ==
    IF Has(mwo, <<"maxLimit">>) THEN Get(mwo, <<"maxLimit">>).n
    ELSE IF Truthy(Get(Get(Get(mwo, <<"routeConfig">>), path), <<"maxLimit">>))
         THEN Get(Get(Get(mwo, <<"routeConfig">>), path), <<"maxLimit">>).n
         ELSE 100

\* the middleware has written req.queryOptions
Handled == queryOptions # Undef

UnknownName ==
    /\ config.entity.t = "str"
    /\ config.entity.s \notin RegisteredModels
    /\ pc \notin {"request", "call"}

\* C7: a call with an unregistered entity name rejects with the error
\* 'Model "<name>" not found...' after one lookup and issues no data query
\* and no count query.
C7_UnknownModelRejected ==
    UnknownName =>
        /\ pc = "rejected"
        /\ error = [kind |-> "ModelNotFound", detail |-> config.entity.s]
        /\ envelope = NoEnvelope
        /\ ops.lookups = 1
        /\ ops.dataQueries = 0
        /\ ops.countQueries = 0

C7_Witness ==
    /\ UnknownName
    /\ pc = "rejected"
    /\ error.kind = "ModelNotFound"
    /\ error.detail = <<"Ghost">>

\* C8: a Mongoose model passed as the entity is used directly: no registry
\* lookup, no 'Invalid entity provided' error, and the data query is issued.
C8_ModelUsedDirectly ==
    (config.entity = ModelFunction /\ pc \notin {"request", "call"}) =>
        /\ error.kind # "InvalidEntity"
        /\ ops.lookups = 0
        /\ Issued

\* C9: graph returns a complete envelope or rejects: a failure of the data
\* query or of the count query rejects with that same error and no envelope,
\* and each store operation is issued at most once.
C9_EnvelopeOrRejection ==
    /\ ops.dataQueries <= 1
    /\ ops.countQueries <= 1
    /\ ops.storeError # <<>> =>
          /\ pc = "rejected"
          /\ error = [kind |-> "StorageError", detail |-> ops.storeError]
    /\ pc # "returned" => envelope = NoEnvelope
    /\ pc = "returned" =>
          /\ error = NoError
          /\ envelope # NoEnvelope
          /\ envelope.data = data
          /\ envelope.metadata.pageSize # 0

\* the count query failed after the data query had answered
C9_Witness ==
    /\ pc = "rejected"
    /\ ops.dataQueries = 1
    /\ ops.countQueries = 1
    /\ ops.storeError = <<"timeout">>
    /\ Len(data) > 0
    /\ envelope = NoEnvelope

\* a key with an underscore whose suffix is neither an operator nor `between`
LiteralKey(key) ==
    /\ HasUnderscore(key)
    /\ mapOperatorToMongoOperator(SplitKey(key)[2]) = <<>>
    /\ SplitKey(key)[2] # <<"between">>

\* C10: a filter key with an underscore and no recognized operator suffix
\* (first_name, created_at) yields an equality clause on the entire key.
C10_LiteralKeyKept ==
    (Issued /\ config.defaultFilters = Undef) =>
        \A i \in 1..Len(config.filters.o) :
            LiteralKey(config.filters.o[i].k) =>
                Get(query.conditions, config.filters.o[i].k) = config.filters.o[i].v

----------------------------------------------------------------------------
(* Normalization: calls that vary one of filters, sort, fields and expand *)

Age == <<"age">>

Numeral(n) == IF n = 20 THEN <<"2", "0">> ELSE IF n = 30 THEN <<"3", "0">> ELSE <<"2", "5">>

\* the values of a `between` filter: pairs as strings and as lists, in both
\* orders, and values that are no pair of numbers
BetweenValues ==
    {Str(Numeral(20) \o <<",">> \o Numeral(30)),
     Str(Numeral(30) \o <<",">> \o Numeral(20)),
     Str(Numeral(25) \o <<",">> \o Numeral(25)),
     ArrOf(<<Num(20), Num(30)>>),
     ArrOf(<<Num(30), Num(20)>>),
     Str(Numeral(20) \o <<",", "abc">>),
     Str(<<"abc">>),
     Str(Numeral(20)),
     Str(Numeral(20) \o <<",">> \o Numeral(25) \o <<",">> \o Numeral(30)),
     ArrOf(<<Num(20)>>),
     Num(20)}

\* the values of a comparison filter: numbers, numeric-looking strings and
\* values that are neither
ComparisonValues ==
    {Num(20), Str(Numeral(20)), Str(<<"-", "5">>), Str(<<" ", "2", "5", " ">>),
     Str(<<"abc">>), Str(<<>>), Bool(TRUE), Bool(FALSE), Null}

ComparisonSuffixes == {<<"gt">>, <<"gte">>, <<"lt">>, <<"lte">>}

NormalizeFilterChoices ==
    {Obj1(Age \o <<"_", "between">>, v) : v \in BetweenValues}
    \cup {Obj1(Age \o <<"_">> \o op, v) : op \in ComparisonSuffixes, v \in ComparisonValues}

MaxSortLen == 2

SortFields == {Age, <<"isDeleted">>}

SortPairs == {<<f, d>> : f \in SortFields, d \in {<<"asc">>, <<"desc">>}}

\* the ordered lists of (field, direction) pairs of up to MaxSortLen entries
SortLists == UNION {[1..n -> SortPairs] : n \in 1..MaxSortLen}

\* the characters of 'field:dir,field:dir,...'
RECURSIVE SortChars(_)
SortChars(list) ==
    IF Len(list) = 0 THEN <<>>
    ELSE IF Len(list) = 1 THEN list[1][1] \o <<":">> \o list[1][2]
         ELSE list[1][1] \o <<":">> \o list[1][2] \o <<",">> \o SortChars(Tail(list))

\* the three forms in which a caller writes a list of sort pairs
StringForm(list) == Str(SortChars(list))

StringsForm(list) ==
    StrArr([i \in 1..Len(list) |-> list[i][1] \o <<":">> \o list[i][2]])

RecordsForm(list) ==
    ArrOf([i \in 1..Len(list) |->
              Obj2(<<"field">>, Str(list[i][1]), <<"order">>, Str(list[i][2]))])

\* sorts with upper-case, missing and unknown directions
DirectionChoices ==
    {Str(<<"age", ":", "DESC">>),
     Str(<<"age", ":", "ASC">>),
     Str(<<"age">>),
     Str(<<"isDeleted", ":", "Desc", ",", "age">>),
     Str(<<"age", ":", "up", ",", "isDeleted", ":", "desc">>),
     StrArr(<<<<"age", ":", "ASC">>, <<"isDeleted">>>>),
     ArrOf(<<Obj2(<<"field">>, Str(Age), <<"order">>, Str(<<"up">>))>>)}

NormalizeSortChoices ==
    DirectionChoices
    \cup {StringForm(l) : l \in SortLists}
    \cup {StringsForm(l) : l \in SortLists}
    \cup {RecordsForm(l) : l \in SortLists}

\* selections that exclude, include, mix and repeat fields
NormalizeFieldChoices ==
    {StrArr(<<<<"-", "secret">>>>),
     StrArr(<<<<"-", "secret">>, <<"-", "bio">>>>),
     Str(<<"-", "secret", ",", " ", "-", "bio">>),
     StrArr(<<<<"age">>, <<"-", "secret">>>>),
     StrArr(<<<<"age">>, <<"bio">>>>),
     Str(<<"age", ",", " ", "bio">>),
     Str(<<"age", ",", "age">>),
     StrArr(<<<<"age">>, <<"bio">>, <<"age">>>>),
     Obj2(<<"age">>, Num(1), <<"bio">>, Num(1)),
     Obj2(<<"age">>, Num(1), <<"secret">>, Num(0))}

\* expansions: bare relations and relations with sub-fields in parentheses
NormalizeExpandChoices ==
    {Str(<<"posts">>),
     Str(<<"posts", ",", "tags">>),
     Str(<<"posts", "(", "title", ",", "body", ")", ",", "tags">>),
     Str(<<"posts", "(", "title", ")">>),
     StrArr(<<<<"posts">>, <<"tags">>>>)}

NormalizeConfigs ==
    {[BaseConfig EXCEPT !.filters = u, !.pagination = p] :
        u \in NormalizeFilterChoices, p \in {Undef, Page(1, 2)}}
    \cup {[BaseConfig EXCEPT !.sort = o] : o \in NormalizeSortChoices}
    \cup {[BaseConfig EXCEPT !.fields = f] : f \in NormalizeFieldChoices}
    \cup {[BaseConfig EXCEPT !.expand = x] : x \in NormalizeExpandChoices}

NormalizeRequests ==
    {[path |-> <<"/users">>, query |-> q] :
        q \in {EmptyObj, Query1("sort", <<"age", ":", "DESC">>)}}

InitNormalize ==
    \/ \E cfg \in NormalizeConfigs : InitDirect(cfg, SmallStore)
    \/ \E request \in NormalizeRequests : InitRequest(EmptyObj, request, SmallStore)

SpecNormalize == InitNormalize /\ [][Next]_vars

----------------------------------------------------------------------------
(* Properties of the normalizers *)

\* graph has gone past normalizeOptions and buildQuery
Normalized == pc \notin {"request", "call"}

\* the characters are a decimal numeral, with or without a sign
IsNumeral(chars) ==
    /\ chars # <<>>
    /\ \/ \A i \in 1..Len(chars) : IsDigit(chars[i])
       \/ /\ Head(chars) = "-" /\ Len(chars) > 1
          /\ \A i \in 2..Len(chars) : IsDigit(chars[i])

\* the number a numeral denotes
NumeralValue(chars) ==
    IF Head(chars) = "-" THEN 0 - DecimalVal(Tail(chars), 0) ELSE DecimalVal(chars, 0)

\* the pieces of a comma-separated string, without outer blanks
Pieces(chars) == [i \in 1..Len(SplitOn(chars, ",")) |-> Trim(SplitOn(chars, ",")[i])]

\* the value is a pair of numbers: a list of two numbers or 'a,b'
IsNumberPair(value) ==
    \/ /\ value.t = "arr" /\ Len(value.o) = 2
       /\ value.o[1].v.t = "num" /\ value.o[2].v.t = "num"
    \/ /\ value.t = "str" /\ Len(Pieces(value.s)) = 2
       /\ IsNumeral(Pieces(value.s)[1]) /\ IsNumeral(Pieces(value.s)[2])

PairNumber(value, i) ==
    IF value.t = "arr" THEN value.o[i].v.n ELSE NumeralValue(Pieces(value.s)[i])

Smaller(a, b) == IF a <= b THEN a ELSE b

Larger(a, b) == IF a >= b THEN a ELSE b

\* the clause the store receives for the field holds min <= field <= max
BetweenClause(clause, a, b) ==
    /\ Get(clause, <<"$gte">>) = Num(Smaller(a, b))
    /\ Get(clause, <<"$lte">>) = Num(Larger(a, b))

\* C11: field_between with a two-element list or a comma pair of numbers
\* becomes field >= min and field <= max, min and max being the smaller and
\* the larger number whatever their order; any other between value adds no
\* clause and raises no error.
C11_BetweenExpands ==
    (Normalized /\ Has(config.filters, Age \o <<"_", "between">>)) =>
        /\ error.kind # "TypeError"
        /\ IF IsNumberPair(Get(config.filters, Age \o <<"_", "between">>))
           THEN BetweenClause(Get(query.conditions, Age),
                              PairNumber(Get(config.filters, Age \o <<"_", "between">>), 1),
                              PairNumber(Get(config.filters, Age \o <<"_", "between">>), 2))
           ELSE ~Has(query.conditions, Age)

\* the value a comparison filter hands to the store: the number for a string
\* that looks numeric, the value itself otherwise
Coerced(value) ==
    IF value.t = "str" /\ IsNumeral(Trim(value.s))
    THEN Num(NumeralValue(Trim(value.s))) ELSE value

\* C12: under the suffixes gt, gte, lt and lte a numeric-looking string
\* becomes the number it denotes and every other value (non-numeric string,
\* empty string, boolean, null) reaches the native clause unchanged.
C12_ComparisonCoercion ==
    Normalized =>
        \A op \in ComparisonSuffixes :
            Has(config.filters, Age \o <<"_">> \o op) =>
                Get(Get(query.conditions, Age), mapOperatorToMongoOperator(op))
                    = Coerced(Get(config.filters, Age \o <<"_">> \o op))

\* the entries of a sort input as sequences <<field>> or <<field, direction>>
SortEntries(sort) ==
    CASE sort.t = "str" ->
            [i \in 1..Len(SplitOn(sort.s, ",")) |-> SplitOn(SplitOn(sort.s, ",")[i], ":")]
      [] sort.t = "arr" ->
            [i \in 1..Len(sort.o) |->
                IF sort.o[i].v.t = "str" THEN SplitOn(sort.o[i].v.s, ":")
                ELSE <<Get(sort.o[i].v, <<"field">>).s, Get(sort.o[i].v, <<"order">>).s>>]
      [] OTHER -> <<>>

\* the direction of an entry in lower case, ascending when it is missing
Direction(entry) == IF Len(entry) < 2 THEN <<"asc">> ELSE ToLowerCase(entry[2])

\* the native sort the entries stand for: 1 for asc, -1 for desc, no key for
\* an entry with any other direction
RECURSIVE NativeSort(_, _)
NativeSort(sorted, entries) ==
    IF entries = <<>> THEN sorted
    ELSE NativeSort(
             IF Direction(Head(entries)) = <<"asc">>
             THEN Put(sorted, Head(entries)[1], Num(1))
             ELSE IF Direction(Head(entries)) = <<"desc">>
                  THEN Put(sorted, Head(entries)[1], Num(0 - 1))
                  ELSE sorted,
             Tail(entries))

\* C13: graph normalizes the case of sort directions ('DESC' descending,
\* 'ASC' ascending), takes a missing direction for ascending and drops an
\* entry whose direction is neither asc nor desc, the other entries keeping
\* their order in the native sort.
C13_SortDirections ==
    (Issued /\ Truthy(config.sort)) =>
        query.sort = NativeSort(EmptyObj, SortEntries(config.sort))

\* C14: a list of (field, direction) pairs with directions asc and desc
\* normalizes to the same ordered list of { field, order } records whether
\* it is written as one 'field:dir,...' string, as an array of 'field:dir'
\* strings or as an array of records.
C14_SortFormsAgree ==
    (pc = "awaitData" /\ ops.writes = 0) =>
        \A list \in SortLists :
            config.sort \in {StringForm(list), StringsForm(list), RecordsForm(list)}
                => options.sorting = RecordsForm(list)

\* the string 'age:desc,isDeleted:asc' normalized to its two records
C14_Witness ==
    /\ pc = "awaitData"
    /\ ops.writes = 0
    /\ config.sort = Str(<<"age", ":", "desc", ",", "isDeleted", ":", "asc">>)
    /\ options.sorting =
          ArrOf(<<Obj2(<<"field">>, Str(Age), <<"order">>, Str(<<"desc">>)),
                  Obj2(<<"field">>, Str(<<"isDeleted">>), <<"order">>, Str(<<"asc">>))>>)

\* the field names of a selection as written: the pieces of a string, the
\* elements of an array, the keys an inclusion map sets to 1
FieldItems(fields) ==
    CASE fields.t = "str" -> Pieces(fields.s)
      [] fields.t = "arr" -> [i \in 1..Len(fields.o) |-> fields.o[i].v.s]
      [] fields.t = "obj" ->
            [i \in 1..Len(SelectSeq(fields.o, LAMBDA e : e.v = Num(1))) |->
                SelectSeq(fields.o, LAMBDA e : e.v = Num(1))[i].k]
      [] OTHER -> <<>>

\* every entry of the selection carries a leading '-'
OnlyExclusions(items) ==
    /\ items # <<>>
    /\ \A i \in 1..Len(items) : StartsWith(items[i], "-")

\* the field names of the records of the collection
RecordFields == {SmallStore[1].o[i].k : i \in 1..Len(SmallStore[1].o)}

\* the row lacks the excluded fields and holds every other field
Excludes(row, items) ==
    \A k \in RecordFields :
        Has(row, k) <=> ~(\E i \in 1..Len(items) : items[i] = <<"-">> \o k)

\* the projection holds the inclusion entries and nothing else
IncludesOnly(projection, items) ==
    /\ \A i \in 1..Len(items) :
          ~StartsWith(items[i], "-") => Get(projection, items[i]) = Num(1)
    /\ \A j \in 1..Len(projection.o) :
          \E i \in 1..Len(items) : items[i] = projection.o[j].k

\* C15: when every entry of fields carries a leading '-', the rows graph
\* returns lack exactly those fields and hold all others; when inclusions
\* and exclusions are mixed, only the inclusions form the projection.
C15_ExclusionProjection ==
    (pc = "returned" /\ config.fields.t \in {"str", "arr"}) =>
        IF OnlyExclusions(FieldItems(config.fields))
        THEN \A r \in 1..Len(envelope.data) :
                Excludes(envelope.data[r], FieldItems(config.fields))
        ELSE IncludesOnly(query.projection, FieldItems(config.fields))

\* the items without the repetitions of earlier items
RECURSIVE FirstOccurrences(_, _)
FirstOccurrences(kept, items) ==
    IF items = <<>> THEN kept
    ELSE FirstOccurrences(
             IF \E i \in 1..Len(kept) : kept[i] = Head(items)
             THEN kept ELSE Append(kept, Head(items)),
             Tail(items))

\* C16: the normalized selection of a string, an array or an inclusion map
\* is free of duplicates and keeps the order of first occurrence, so naming
\* a field twice selects what naming it once selects.
C16_SelectionDeduplicated ==
    (Normalized /\ Truthy(config.fields)) =>
        options.selectFields = StrArr(FirstOccurrences(<<>>, FieldItems(config.fields)))

\* a populate entry for a bare relation and for a relation with sub-fields
BareRelation(path) == Obj1(<<"path">>, Str(path))

SelectedRelation(path, subs) == Obj2(<<"path">>, Str(path), <<"select">>, StrArr(subs))

\* the relations of an expand string: commas outside parentheses separate
\* relations, commas inside separate the sub-fields of the relation
RECURSIVE Relations(_, _, _, _, _, _)
Relations(chars, found, path, subs, cur, inside) ==
    IF chars = <<>>
    THEN IF Trim(cur) # <<>> THEN Append(found, BareRelation(Trim(cur))) ELSE found
    ELSE CASE Head(chars) = "(" /\ ~inside ->
                 Relations(Tail(chars), found, Trim(cur), <<>>, <<>>, TRUE)
           [] Head(chars) = ")" /\ inside ->
                 Relations(Tail(chars),
                           Append(found, SelectedRelation(path, Append(subs, Trim(cur)))),
                           <<>>, <<>>, <<>>, FALSE)
           [] Head(chars) = "," /\ inside ->
                 Relations(Tail(chars), found, path, Append(subs, Trim(cur)), <<>>, TRUE)
           [] Head(chars) = "," /\ ~inside ->
                 Relations(Tail(chars),
                           IF Trim(cur) # <<>>
                           THEN Append(found, BareRelation(Trim(cur))) ELSE found,
                           <<>>, <<>>, <<>>, FALSE)
           [] OTHER ->
                 Relations(Tail(chars), found, path, subs, Append(cur, Head(chars)), inside)

ExpectedRelations(chars) == ArrOf(Relations(chars, <<>>, <<>>, <<>>, <<>>, FALSE))

\* C17: graph reads an expand string with commas at top level separating
\* relations and commas in parentheses separating sub-fields: 'a(x,y),b'
\* gives two populate entries, a with the selection [x, y] and b with none.
C17_ExpandStringParsed ==
    (Normalized /\ config.expand.t = "str") =>
        options.populate = ExpectedRelations(config.expand.s)

----------------------------------------------------------------------------
(* Requests: query strings that vary the filters, the page and the expand *)

\* query strings with one filter key, and with a reserved key next to one
FilterQueryChoices ==
    {Query1("age", <<"2", "5">>),
     Query1("age", <<"-", "5">>),
     Query1("name", <<"bob">>),
     Query1("name", <<>>),
     Query1("name", <<" ">>),
     Obj1(<<"tags", "_", "in">>, Str(<<"a", ",", "b">>)),
     Obj1(<<"tags", "_", "in">>, Str(<<"5">>)),
     Obj1(<<"tag">>, StrArr(<<<<"a">>, <<"b">>>>)),
     Obj2(<<"age", "_", "gte">>, Str(<<"2", "0">>), <<"name">>, Str(<<"bob">>))}
    \cup {Obj2(k, Str(<<"x">>), <<"status">>, Str(<<"active">>)) : k \in reservedParams}

\* what a request says for page and for limit
PageChoices ==
    {Undef, Str(<<"2">>), Str(<<"0">>), Str(<<"abc">>), Str(<<"-", "1">>)}

LimitChoices ==
    {Undef, Str(<<"5">>), Str(<<"0">>), Str(<<"abc">>), Str(<<"-", "2">>)}

PageQueryChoices ==
    {Defined(<<Entry(<<"page">>, p), Entry(<<"limit">>, l)>>) :
        p \in PageChoices, l \in LimitChoices}

MaxExpandItems == 2

\* the items of an expand string: a relation, its sub-fields (none for a
\* bare relation) and whether blanks surround its parts
ExpandItems ==
    {[path |-> p, subs |-> f, blanks |-> FALSE] :
        p \in {<<"posts">>, <<"tags">>},
        f \in {<<>>, <<<<"title">>>>, <<<<"title">>, <<"body">>>>}}
    \cup {[path |-> <<"posts">>, subs |-> <<<<"title">>, <<"body">>>>, blanks |-> TRUE],
          [path |-> <<"tags">>, subs |-> <<>>, blanks |-> TRUE]}

ExpandLists == UNION {[1..n -> ExpandItems] : n \in 1..MaxExpandItems}

\* the characters of a word, between blanks or not
Padded(chars, blanks) == IF blanks THEN <<" ">> \o chars \o <<" ">> ELSE chars

\* the characters of 'f1,...,fn'
RECURSIVE SubFieldChars(_, _)
SubFieldChars(subs, blanks) ==
    IF Len(subs) = 1 THEN Padded(subs[1], blanks)
    ELSE Padded(subs[1], blanks) \o <<",">> \o SubFieldChars(Tail(subs), blanks)

\* the characters of 'path' or 'path(f1,...,fn)'
ItemChars(item) ==
    IF item.subs = <<>> THEN Padded(item.path, item.blanks)
    ELSE Padded(item.path, item.blanks) \o <<"(">>
            \o SubFieldChars(item.subs, item.blanks) \o Padded(<<")">>, item.blanks)

\* the characters of the items, separated by commas
RECURSIVE ExpandChars(_)
ExpandChars(list) ==
    IF Len(list) = 1 THEN ItemChars(list[1])
    ELSE ItemChars(list[1]) \o <<",">> \o ExpandChars(Tail(list))

ExpandQueryChoices == {Obj1(<<"expand">>, Str(ExpandChars(l))) : l \in ExpandLists}

InitRequests ==
    \/ \E q \in FilterQueryChoices \cup ExpandQueryChoices :
          InitRequest(EmptyObj, [path |-> UsersPath, query |-> q], UniformStore(2))
    \/ \E q \in PageQueryChoices, mwo \in {EmptyObj, Obj1(<<"defaultLimit">>, Num(3))} :
          InitRequest(mwo, [path |-> UsersPath, query |-> q], UniformStore(2))

SpecRequests == InitRequests /\ [][Next]_vars

----------------------------------------------------------------------------
(* Properties of the middleware's parsing *)

\* the query-string keys that are no filters
ReservedKeys ==
    {<<"select">>, <<"fields">>, <<"expand">>, <<"sort">>, <<"page">>, <<"limit">>,
     <<"offset">>, <<"cursor">>, <<"search">>, <<"searchLanguage">>, <<"searchScore">>}

\* the key ends in _in
IsListKey(key) == Len(key) >= 2 /\ SubSeq(key, Len(key) - 1, Len(key)) = <<"_", "in">>

\* the filter value a query-string value stands for
FilterValue(key, value) ==
    IF value.t # "str" THEN value
    ELSE IF IsListKey(key) THEN StrArr(SplitOn(value.s, ","))
         ELSE IF IsNumeral(Trim(value.s)) THEN Num(NumeralValue(Trim(value.s)))
              ELSE value

\* C18: every query-string key outside the reserved set becomes one filter
\* entry and no reserved key becomes a filter; a string under a key ending
\* in _in is split on commas, any other numeric-looking string becomes a
\* number and every other string is kept unchanged.
C18_FiltersFromQuery ==
    Handled =>
        /\ \A i \in 1..Len(req.query.o) :
              IF req.query.o[i].k \in ReservedKeys
              THEN ~Has(Get(queryOptions, <<"filters">>), req.query.o[i].k)
              ELSE Get(Get(queryOptions, <<"filters">>), req.query.o[i].k)
                      = FilterValue(req.query.o[i].k, req.query.o[i].v)
        /\ \A j \in 1..Len(Get(queryOptions, <<"filters">>).o) :
              Has(req.query, Get(queryOptions, <<"filters">>).o[j].k)

\* the request names a number under the key
NamesNumber(key) ==
    /\ Get(req.query, key).t = "str"
    /\ IsNumeral(Trim(Get(req.query, key).s))

\* the default limit the configuration declares, 10 when it declares none
ConfiguredDefault(mwo) ==
    IF Has(mwo, <<"defaultLimit">>) THEN Get(mwo, <<"defaultLimit">>) ELSE Num(10)

\* C19: the middleware's pagination.page is an integer >= 1, 1 when page is
\* missing or no number, and pagination.limit is an integer >= 1, the
\* default limit when limit is missing or no number.
C19_PageAndLimitPositive ==
    Handled =>
        /\ Get(Get(queryOptions, <<"pagination">>), <<"page">>).t = "num"
        /\ Get(Get(queryOptions, <<"pagination">>), <<"page">>).n >= 1
        /\ ~NamesNumber(<<"page">>) =>
              Get(Get(queryOptions, <<"pagination">>), <<"page">>) = Num(1)
        /\ Get(Get(queryOptions, <<"pagination">>), <<"limit">>).t = "num"
        /\ Get(Get(queryOptions, <<"pagination">>), <<"limit">>).n >= 1
        /\ ~NamesNumber(<<"limit">>) =>
              Get(Get(queryOptions, <<"pagination">>), <<"limit">>)
                  = ConfiguredDefault(mwOptions)

\* the populate entry an item stands for
ItemRelation(item) ==
    IF item.subs = <<>> THEN BareRelation(item.path)
    ELSE SelectedRelation(item.path, item.subs)

\* C20: for an expand string of items 'path' or 'path(f1,...,fn)' separated
\* by commas the middleware outputs one entry per item, in order, whose
\* select lists the trimmed sub-fields of a parenthesised item and is absent
\* for a bare item.
C20_ExpandItemsParsed ==
    (pc = "call" /\ Handled) =>
        \A list \in ExpandLists :
            Get(req.query, <<"expand">>) = Str(ExpandChars(list)) =>
                Get(queryOptions, <<"expand">>)
                    = ArrOf([i \in 1..Len(list) |-> ItemRelation(list[i])])

\* ' posts ( title , body ) ,tags' parsed into its two entries
C20_Witness ==
    /\ pc = "call"
    /\ Handled
    /\ Get(req.query, <<"expand">>)
          = Str(<<" ", "posts", " ", "(", " ", "title", " ", ",", " ", "body", " ",
                  " ", ")", " ", ",", "tags">>)
    /\ Get(queryOptions, <<"expand">>)
          = ArrOf(<<SelectedRelation(<<"posts">>, <<<<"title">>, <<"body">>>>),
                    BareRelation(<<"tags">>)>>)

----------------------------------------------------------------------------
(* Routes: global options beside a routeConfig entry *)

ProductsPath == <<"/products">>

\* the options of one scope (global, or one routeConfig entry)
ScopeOptions(maxLimit, defaultLimit, defaultFilters) ==
    <<Entry(<<"maxLimit">>, maxLimit), Entry(<<"defaultLimit">>, defaultLimit),
      Entry(<<"defaultFilters">>, defaultFilters)>>

\* what the route entry of /products declares
RouteEntries ==
    {Defined(ScopeOptions(m, d, f)) :
        m \in {Undef, Num(100)}, d \in {Undef, Num(30)},
        f \in {Undef, Obj1(<<"age">>, Num(21))}}

\* global maxLimit 50, defaultLimit 20 and defaultFilters, each given or not,
\* beside a routeConfig with an entry for /products
RouteOptions ==
    {Defined(ScopeOptions(m, d, f)
             \o <<Entry(<<"routeConfig">>, Obj1(ProductsPath, entry))>>) :
        m \in {Undef, Num(50)}, d \in {Undef, Num(20)},
        f \in {Undef, Obj1(<<"isDeleted">>, Bool(FALSE)), Obj1(<<"age">>, Num(22))},
        entry \in RouteEntries}

RouteRequests ==
    {[path |-> path, query |-> Defined(<<Entry(<<"limit">>, l)>>)] :
        path \in {ProductsPath, <<"/other">>},
        l \in {Undef, Str(<<"8", "0">>), Str(<<"1", "5", "0">>)}}

InitRoutes ==
    \E mwo \in RouteOptions, request \in RouteRequests :
        InitRequest(mwo, request, UniformStore(2))

SpecRoutes == InitRoutes /\ [][Next]_vars

----------------------------------------------------------------------------
(* Properties of the route configuration *)

\* the routeConfig entry of the request's path
RouteEntry == Get(Get(mwOptions, <<"routeConfig">>), req.path)

\* the limit the request asks for, or the given default
RequestedLimit(default) ==
    IF NamesNumber(<<"limit">>)
    THEN Num(NumeralValue(Trim(Get(req.query, <<"limit">>).s)))
    ELSE default

\* the limit an entry with a maximum and a default yields for the request
EntryLimit(entry) ==
    Smaller(RequestedLimit(Get(entry, <<"defaultLimit">>)).n,
            Get(entry, <<"maxLimit">>).n)

\* every clause of the filters is a clause of the written default filters
WrittenDefaults(filters) ==
    \A i \in 1..Len(filters.o) :
        Get(Get(queryOptions, <<"defaultFilters">>), filters.o[i].k) = filters.o[i].v

\* C21: for a request whose path has a routeConfig entry, the entry's
\* maxLimit and defaultLimit are the ones applied to pagination.limit and the
\* entry's defaultFilters are part of the defaultFilters written to
\* req.queryOptions, also when global values of these options are configured.
C21_RouteEntryApplied ==
    (pc = "call" /\ Handled /\ RouteEntry.t = "obj") =>
        /\ (Has(RouteEntry, <<"maxLimit">>) /\ Has(RouteEntry, <<"defaultLimit">>)) =>
              Get(Get(queryOptions, <<"pagination">>), <<"limit">>)
                  = Num(EntryLimit(RouteEntry))
        /\ Has(RouteEntry, <<"defaultFilters">>) =>
              WrittenDefaults(Get(RouteEntry, <<"defaultFilters">>))

----------------------------------------------------------------------------
(* Filters: calls that vary the keys and values of the two filter sets *)

AgeGte == <<"age", "_", "gte">>

AgeLte == <<"age", "_", "lte">>

Bio == <<"bio">>

\* the values a bare equality is given: numbers, booleans, strings, null
\* and a list
EqualityValues ==
    {Num(25), Num(0), Bool(TRUE), Bool(FALSE), Str(<<"dev">>), Str(<<>>), Null,
     ArrOf(<<Num(25), Num(30)>>)}

MergeDefaultChoices ==
    {Obj1(Age, v) : v \in EqualityValues}
        \cup {Obj1(AgeGte, Num(20)),
              Obj2(Age, Num(25), Bio, Str(<<"dev">>)),
              Obj2(Age, Num(0), Bio, Str(<<"dev">>))}

MergeUserChoices ==
    {Obj1(Age, v) : v \in EqualityValues}
        \cup {Obj1(AgeLte, Num(30)),
              Obj2(Age, Num(30), Bio, Str(<<"ops">>))}

\* calls with a default and a user filter set on the same fields
MergeConfigs ==
    {[BaseConfig EXCEPT !.defaultFilters = d, !.filters = u] :
        d \in MergeDefaultChoices, u \in MergeUserChoices}
\* the suffixes whose string values the claim names, and some more
MapperSuffixes ==
    {<<"in">>, <<"nin">>, <<"all">>, <<"exists">>, <<"gt">>, <<"gte">>, <<"lt">>,
     <<"lte">>, <<"between">>, <<"ne">>, <<"eq">>}

\* '25,30', 'true', 'false', '20', 25, true and [25, 30]
MapperValues ==
    {Str(<<"2", "5", ",", "3", "0">>), Str(TrueChars), Str(<<"false">>),
     Str(<<"2", "0">>), Num(25), Bool(TRUE), ArrOf(<<Num(25), Num(30)>>)}

\* one key, bare or with a suffix, and its value
MapperChoices ==
    {Obj1(Age, v) : v \in MapperValues}
        \cup {Obj1(Age \o <<"_">> \o op, v) : op \in MapperSuffixes, v \in MapperValues}

\* calls with one filter entry, given as a default filter or as a user filter
MapperConfigs ==
    {[BaseConfig EXCEPT !.defaultFilters = m] : m \in MapperChoices}
        \cup {[BaseConfig EXCEPT !.filters = m] : m \in MapperChoices}

\* two keys that target age, in both orders: a range, and a bare value with
\* a bound
SameFieldChoices ==
    {Obj2(AgeGte, Num(20), AgeLte, Num(25)),
     Obj2(AgeLte, Num(25), AgeGte, Num(20)),
     Obj2(Age, Num(25), AgeGte, Num(26)),
     Obj2(AgeGte, Num(26), Age, Num(25)),
     Obj2(Age, Num(0), AgeGte, Num(20)),
     Obj2(AgeLte, Num(20), Age, Num(30))}

\* calls whose user filters, or default filters, hold two keys on one field
SameFieldConfigs ==
    {[BaseConfig EXCEPT !.filters = f] : f \in SameFieldChoices}
        \cup {[BaseConfig EXCEPT !.defaultFilters = f] : f \in SameFieldChoices}

\* the merge configurations once more, paginated
PagedMergeConfigs == {[cfg EXCEPT !.pagination = Page(1, 2)] : cfg \in MergeConfigs}

InitFilters ==
    \E cfg \in MergeConfigs \cup PagedMergeConfigs \cup MapperConfigs
                 \cup SameFieldConfigs :
        InitDirect(cfg, SmallStore)

SpecFilters == InitFilters /\ [][NextDirect]_vars

----------------------------------------------------------------------------
(* Properties of the filter mapper and of the merge *)

\* the call has just handed its data query to the store
Sent == pc = "awaitData" /\ ops.writes = 0

\* the field a filter key targets and whether the key is a bare equality
FieldOf(key) == SplitOn(key, "_")[1]

IsBare(key) == ~Includes(key, "_")

\* the native clause one key of a filter set stands for
ClauseOf(key, value) ==
    CASE IsBare(key) -> value
      [] SplitOn(key, "_")[2] = <<"gte">> -> Obj1(<<"$gte">>, value)
      [] SplitOn(key, "_")[2] = <<"lte">> -> Obj1(<<"$lte">>, value)

\* the $and list of the filter holds the clause on the field as one entry
InAndList(filter, field, clause) ==
    ArrIncludes(OrElse(Get(filter, AndKey), Arr(<<>>)), Obj1(field, clause))

\* both clauses on the field are entries of $and and the field has no
\* direct entry
BothConjoined(filter, d, u) ==
    /\ ~Has(filter, FieldOf(d.k))
    /\ InAndList(filter, FieldOf(d.k), ClauseOf(d.k, d.v))
    /\ InAndList(filter, FieldOf(u.k), ClauseOf(u.k, u.v))

\* C22: when a field is constrained by both defaultFilters and filters and
\* at least one side is a bare equality (a scalar, null or a list), the
\* filter sent to the store has both clauses verbatim as separate entries of
\* its $and list and no direct entry for the field; conflicts on several
\* fields all end up in the same $and list.
C22_ConflictsConjoined ==
    Sent =>
        \A i \in 1..Len(config.defaultFilters.o), j \in 1..Len(config.filters.o) :
            (/\ FieldOf(config.defaultFilters.o[i].k) = FieldOf(config.filters.o[j].k)
             /\ \/ IsBare(config.defaultFilters.o[i].k)
                \/ IsBare(config.filters.o[j].k))
                => BothConjoined(query.conditions, config.defaultFilters.o[i],
                                 config.filters.o[j])

\* the call that gives the same entries on the other side: the user filters
\* as default filters and the default filters as user filters
Swapped(cfg) ==
    [cfg EXCEPT !.filters = cfg.defaultFilters, !.defaultFilters = cfg.filters]

\* the call gives one filter entry on one side and nothing on the other
OneSided(cfg) ==
    \/ cfg.filters = Undef /\ cfg.defaultFilters.t = "obj" /\ Len(cfg.defaultFilters.o) = 1
    \/ cfg.defaultFilters = Undef /\ cfg.filters.t = "obj" /\ Len(cfg.filters.o) = 1

\* C23: for every key k and value v, string values of the suffixes in, nin,
\* all, exists, gt, gte, lt, lte and between included, graph called with
\* defaultFilters = {k: v} alone sends the same native filter as graph called
\* with filters = {k: v} alone.
C23_SameMapper ==
    (Sent /\ OneSided(config)) =>
        query.conditions = applyFilters(normalizeOptions(Swapped(config)))

\* the filter set the call gives on one side only, when it holds two keys
\* that target the same field
TwoKeysOneField(cfg) ==
    \/ /\ cfg.defaultFilters = Undef /\ cfg.filters.t = "obj" /\ Len(cfg.filters.o) = 2
       /\ FieldOf(cfg.filters.o[1].k) = FieldOf(cfg.filters.o[2].k)
    \/ /\ cfg.filters = Undef /\ cfg.defaultFilters.t = "obj"
       /\ Len(cfg.defaultFilters.o) = 2
       /\ FieldOf(cfg.defaultFilters.o[1].k) = FieldOf(cfg.defaultFilters.o[2].k)

GivenSet(cfg) == IF cfg.filters = Undef THEN cfg.defaultFilters ELSE cfg.filters

\* the record satisfies the constraint one key states
KeyHolds(rec, key, value) ==
    CASE IsBare(key) -> Get(rec, FieldOf(key)) = value
      [] SplitOn(key, "_")[2] = <<"gte">> -> Get(rec, FieldOf(key)).n >= value.n
      [] SplitOn(key, "_")[2] = <<"lte">> -> Get(rec, FieldOf(key)).n <= value.n

\* C24: when several keys of one filter set target the same field, the call
\* is not refused and every record the native filter admits satisfies the
\* constraint of every key, whatever the order of the keys.
C24_EveryKeyEnforced ==
    (pc # "call" /\ TwoKeysOneField(config)) =>
        /\ error.kind # "TypeError"
        /\ Issued =>
              \A r \in 1..Len(SmallStore), i \in 1..2 :
                  Matches(SmallStore[r], query.conditions) =>
                      KeyHolds(SmallStore[r], GivenSet(config).o[i].k,
                               GivenSet(config).o[i].v)

----------------------------------------------------------------------------
(* Sharing: a caller that makes several calls with one defaultFilters object *)

MaxCalls == 2

AgeFrom(n) == Obj1(<<"$gte">>, Num(n))

\* the defaultFilters object the caller builds once: plain values, a value
\* that is an operator map of its own, and a $and list of the caller's
SharedDefaultChoices ==
    {Obj1(Age, Num(25)),
     Obj2(Age, Num(25), Bio, Str(<<"dev">>)),
     Obj2(Age, AgeFrom(20), Bio, Str(<<"dev">>)),
     Obj2(Age, AgeFrom(20), AgeLte, Num(30)),
     Obj2(AndKey, ArrOf(<<Obj1(<<"isDeleted">>, Bool(FALSE))>>), Age, Num(25))}

\* the filters of one call
SharedUserChoices ==
    {Undef,
     Obj1(Age, Num(30)),
     Obj1(Age, Num(25)),
     Obj1(Bio, Str(<<"ops">>)),
     Obj1(AgeLte, Num(30)),
     Obj2(Age, AgeFrom(20), AgeLte, Num(30))}

SharedConfigs ==
    {[BaseConfig EXCEPT !.defaultFilters = d, !.filters = u, !.pagination = p] :
        d \in SharedDefaultChoices, u \in SharedUserChoices,
        p \in {Undef, Page(1, 2)}}

InitShared == \E cfg \in SharedConfigs : InitDirect(cfg, SmallStore)

\* the caller calls graph again with the same defaultFilters object and the
\* filters of the next call
CallAgain ==
    /\ pc \in {"returned", "rejected"}
    /\ ops.calls < MaxCalls
    /\ \E f \in SharedUserChoices :
          /\ config' = [config EXCEPT !.filters = f]
          /\ ops' = [NoOps EXCEPT !.calls = ops.calls + 1,
                                  !.given = [ops.given EXCEPT !.filters = f]]
    /\ pc' = "call"
    /\ options' = NoOptions
    /\ query' = NewQuery
    /\ countQuery' = NewQuery
    /\ data' = <<>>
    /\ envelope' = NoEnvelope
    /\ error' = NoError
    /\ UNCHANGED <<mwOptions, req, queryOptions, store>>

NextShared ==
    \/ GraphStart
    \/ DataResolve
    \/ DataReject
    \/ CountResolve
    \/ CountReject
    \/ OtherClientWrite
    \/ CallAgain

SpecShared == InitShared /\ [][NextShared]_vars

----------------------------------------------------------------------------
(* Properties of calls that share their default filters *)

\* C25: graph modifies neither the config object nor an object or array
\* reachable from filters or defaultFilters, and the filter a call sends to
\* the store is the one its own filters and the original defaultFilters
\* give, whatever calls were made before with the same defaultFilters.
C25_NoSharedState ==
    /\ pc # "request" => config = ops.given
    /\ Sent => query.conditions = buildQuery(normalizeOptions(ops.given)).conditions

----------------------------------------------------------------------------
(* Stages: calls that vary every stage of the query *)

StageExpandChoices ==
    {Undef,
     Str(<<"posts">>),
     ArrOf(<<Obj2(<<"path">>, Str(<<"posts">>),
                  <<"select">>, StrArr(<<<<"title">>, <<"-", "body">>>>))>>),
     ArrOf(<<Obj2(<<"path">>, Str(<<"posts">>),
                  <<"select">>, StrArr(<<<<"title">>, MinusId>>)),
             Obj1(<<"path">>, Str(<<"tags">>))>>),
     ArrOf(<<Obj2(<<"path">>, Str(<<"posts">>),
                  <<"select">>, StrArr(<<<<"-", "body">>>>))>>)}

StageSortChoices ==
    {Undef,
     Str(<<"age", ":", "desc", ",", "isDeleted">>),
     Str(<<"isDeleted", ",", "age", ":", "desc">>)}

StageConfigs ==
    {[BaseConfig EXCEPT !.filters = u, !.fullTextSearch = t, !.sort = o,
                        !.fields = f, !.expand = x, !.pagination = p] :
        u \in {Undef, Obj1(AgeGte, Num(20))}, t \in SearchChoices,
        o \in StageSortChoices, f \in {Undef, StrArr(<<Age, Bio>>)},
        x \in StageExpandChoices, p \in {Undef, Page(1, 2)}}

InitStages == \E cfg \in StageConfigs : InitDirect(cfg, SmallStore)

SpecStages == InitStages /\ [][NextDirect]_vars

----------------------------------------------------------------------------
(* Properties of the assembly of the native query *)

FilterStage == 1

SearchStage == 2

SortStage == 3

ProjectionStage == 4

PopulationStage == 5

PaginationStage == 6

\* the stage a method call on the native query belongs to: the text search
\* calls find with a $text clause and, for the score, select and sort
StageOf(call) ==
    CASE call.method = "find" ->
            IF Has(call.arg, <<"$text">>) THEN SearchStage ELSE FilterStage
      [] call.method = "sort" ->
            IF Has(call.arg, <<"score">>) THEN SearchStage ELSE SortStage
      [] call.method = "select" ->
            IF Has(call.arg, <<"score">>) THEN SearchStage ELSE ProjectionStage
      [] call.method = "populate" -> PopulationStage
      [] OTHER -> PaginationStage

\* no call of a later stage comes before a call of an earlier one
InStageOrder(calls) ==
    \A i, j \in 1..Len(calls) : i < j => StageOf(calls[i]) <= StageOf(calls[j])

HasStage(calls, stage) == \E i \in 1..Len(calls) : StageOf(calls[i]) = stage

\* the options ask for the stage
Asked(opts, stage) ==
    CASE stage = FilterStage -> Truthy(opts.filters) /\ Len(opts.filters.o) > 0
      [] stage = SearchStage -> Truthy(opts.fullTextSearch)
      [] stage = SortStage -> Truthy(opts.sorting) /\ Len(opts.sorting.o) > 0
      [] stage = ProjectionStage ->
            Truthy(opts.selectFields) /\ Len(opts.selectFields.o) > 0
      [] stage = PopulationStage -> Truthy(opts.populate) /\ Len(opts.populate.o) > 0
      [] OTHER -> Truthy(opts.pagination)

\* skip and then limit are the last two calls
PaginatedLast(calls) ==
    /\ Len(calls) >= 2
    /\ calls[Len(calls) - 1].method = "skip"
    /\ calls[Len(calls)].method = "limit"

\* C26: the data query is built by the stages filter, text search, sort,
\* projection, population, pagination in this order, skip and limit coming
\* after every other call, and the count query gets the calls of the filter
\* and text-search stages and no skip or limit.
C26_StageOrder ==
    /\ Issued =>
          /\ InStageOrder(query.calls)
          /\ \A stage \in FilterStage..PaginationStage :
                Asked(options, stage) => HasStage(query.calls, stage)
          /\ Truthy(options.pagination) => PaginatedLast(query.calls)
    /\ ops.countQueries = 1 =>
          /\ countQuery.calls
                = SelectSeq(query.calls, LAMBDA c : StageOf(c) <= SearchStage)
          /\ countQuery.skip = Undef
          /\ countQuery.limit = Undef

\* a call with all six stages whose count query was built
C26_Witness ==
    /\ pc = "returned"
    /\ ops.countQueries = 1
    /\ \A stage \in FilterStage..PaginationStage : HasStage(query.calls, stage)
    /\ HasStage(countQuery.calls, SearchStage)

----------------------------------------------------------------------------
(* Properties of sorting by the relevance score *)

\* the options ask for the relevance score
ScoreAsked(opts) ==
    /\ Truthy(opts.fullTextSearch)
    /\ Truthy(Get(opts.fullTextSearch, <<"sortByScore">>))

\* the entries of the explicit sort in the order they were given
ExplicitSort(opts) ==
    IF Truthy(opts.sorting)
    THEN [i \in 1..Len(opts.sorting.o) |->
             Entry(Get(opts.sorting.o[i].v, <<"field">>).s,
                   IF Get(opts.sorting.o[i].v, <<"order">>) = Str(<<"asc">>)
                   THEN Num(1) ELSE Num(0 - 1))]
    ELSE <<>>

ScoreEntry == Entry(<<"score">>, Obj(<<Entry(<<"$meta">>, Str(<<"textScore">>))>>))

\* C27: with sortByScore the projection of the data query has the
\* relevance-score entry, and its sort is the explicit sort entries in their
\* order followed by the relevance-score entry, which is the only entry when
\* no explicit sort is given.
C27_ScoreSortedLast ==
    Issued /\ ScoreAsked(options) =>
        /\ Get(query.projection, <<"score">>) = ScoreEntry.v
        /\ query.sort.o = ExplicitSort(options) \o <<ScoreEntry>>

----------------------------------------------------------------------------
(* Properties of the envelope under concurrent writes *)

\* graph returned the envelope of a paginated call
PaginatedEnvelope == pc = "returned" /\ Truthy(options.pagination)

\* C28: the envelope of a paginated call never holds more records than its
\* totalCount, whatever other clients insert or delete while the call is in
\* flight.
C28_DataWithinTotal ==
    PaginatedEnvelope => Len(envelope.data) <= envelope.metadata.totalCount

----------------------------------------------------------------------------
(* The class QueryBuilder: new QueryBuilder(model, options).execute()      *)
(* Its constructor normalizes the options with the code of normalizeOptions *)
(* and its applyFilters, buildFilterQuery and mergeFilterQueries are the    *)
(* code of the functions of the same names above.                           *)

\* x || false
OrFalse(x) == IF Truthy(x) THEN x ELSE Bool(FALSE)

\* QueryBuilder.applyFullTextSearch: the score is projected when sortByScore
\* is set and sorted by only when the options hold no sorting
QueryBuilder_applyFullTextSearch(q, opts) ==
    IF ~Truthy(opts.fullTextSearch) THEN q
    ELSE IF ~Truthy(Get(opts.fullTextSearch, <<"sortByScore">>))
         THEN applyFullTextSearch(q, Delete(opts.fullTextSearch, <<"sortByScore">>))
         ELSE IF Truthy(opts.sorting)
              THEN QuerySelect(
                       applyFullTextSearch(q,
                           Delete(opts.fullTextSearch, <<"sortByScore">>)),
                       includeTextScore)
              ELSE applyFullTextSearch(q, opts.fullTextSearch)

\* QueryBuilder.applySorting
QueryBuilder_applySorting(q, opts) ==
    IF Truthy(opts.sorting)
    THEN QuerySort(q, sortOptionsLoop(EmptyObj, opts.sorting.o)) ELSE q

\* the paths of the schema of the model except _id
ModelPaths ==
    <<<<"isDeleted">>, <<"age">>, FirstName, <<"bio">>, <<"secret">>>>

\* the projection Query.select makes of a string of names: a name with a
\* leading minus is excluded
RECURSIVE selectStringLoop(_, _)
selectStringLoop(projection, names) ==
    IF names = <<>> THEN projection
    ELSE selectStringLoop(
             IF StartsWith(Head(names), "-")
             THEN Put(projection, Tail(Head(names)), Num(0))
             ELSE Put(projection, Head(names), Num(1)),
             Tail(names))

\* QueryBuilder.selectFields: the fields, then every other path with a minus
QueryBuilder_selectFields(q, opts) ==
    IF Truthy(opts.selectFields) /\ Len(opts.selectFields.o) > 0
    THEN QuerySelect(q,
             selectStringLoop(EmptyObj,
                 [i \in 1..Len(opts.selectFields.o) |-> opts.selectFields.o[i].v.s]
                 \o [i \in 1..Len(SelectSeq(ModelPaths,
                         LAMBDA p : ~ArrIncludes(opts.selectFields, Str(p)))) |->
                        <<"-">> \o SelectSeq(ModelPaths,
                            LAMBDA p : ~ArrIncludes(opts.selectFields, Str(p)))[i]]))
    ELSE q

\* QueryBuilder.applyPopulation: the schema of the model has no path with a
\* ref, so an entry with a select reads options of undefined and throws
QueryBuilder_applyPopulation(q, opts) ==
    IF ~Truthy(opts.populate) THEN q
    ELSE IF \E i \in 1..Len(opts.populate.o) :
                Truthy(Get(opts.populate.o[i].v, <<"select">>))
         THEN [q EXCEPT !.conditions = Thrown]
         ELSE QueryPopulate(q,
                  [i \in 1..Len(opts.populate.o) |->
                      Obj1(<<"path">>, Get(opts.populate.o[i].v, <<"path">>))])

\* QueryBuilder.buildQuery; its conditions are Thrown when a stage throws
QueryBuilder_buildQuery(opts) ==
    IF IsThrown(applyFilters(opts)) THEN filteredQuery(applyFilters(opts))
    ELSE applyPagination(
             QueryBuilder_applyPopulation(
                 QueryBuilder_selectFields(
                     QueryBuilder_applySorting(
                         QueryBuilder_applyFullTextSearch(
                             filteredQuery(applyFilters(opts)), opts),
                         opts),
                     opts),
                 opts),
             opts)

\* the filterQuery of the count query in execute: the user filters merged
\* into an empty query, replaced by the default filters when there are any
executeFilterQuery(opts) ==
    IF Truthy(opts.defaultFilters)
    THEN IF Truthy(opts.filters) /\ IsThrown(buildFilterQuery(opts.filters))
         THEN Thrown
         ELSE Spread(EmptyObj, buildFilterQuery(opts.defaultFilters))
    ELSE IF Truthy(opts.filters)
         THEN mergeFilterQueries(EmptyObj, buildFilterQuery(opts.filters))
         ELSE EmptyObj

\* the count query of execute
executeCountQuery(filtered, fullTextSearch) ==
    IF IsThrown(filtered.conditions) \/ ~Truthy(fullTextSearch) THEN filtered
    ELSE QueryFind(filtered,
             buildFullTextSearchQuery(
                 [searchText |-> Get(fullTextSearch, <<"searchText">>),
                  language |-> Get(fullTextSearch, <<"language">>),
                  caseSensitive |-> OrFalse(Get(fullTextSearch, <<"caseSensitive">>)),
                  diacriticSensitive |->
                      OrFalse(Get(fullTextSearch, <<"diacriticSensitive">>))]))

\* the response execute returns
MakeResponse(opts, rows, totalCount, executionTimeMs) ==
    [data |-> rows,
     meta |-> MakeEnvelope(opts, rows, totalCount, executionTimeMs).metadata]

\* the state after new QueryBuilder(model, cfg): the options are normalized
InitBuilder(cfg, records) ==
    /\ pc = "call"
    /\ mwOptions = EmptyObj
    /\ req = NoRequest
    /\ queryOptions = Undef
    /\ config = cfg
    /\ store = records
    /\ options = normalizeOptions(cfg)
    /\ query = NewQuery
    /\ countQuery = NewQuery
    /\ data = <<>>
    /\ envelope = NoEnvelope
    /\ error = NoError
    /\ ops = [NoOps EXCEPT !.given = cfg]

\* execute up to its first await: buildQuery and the start of query.exec()
ExecuteStart ==
    /\ pc = "call"
    /\ graphBuilt("model", optionsWritten(options, applyFiltersShared(options)),
                  QueryBuilder_buildQuery(options))
    /\ config' = configWritten(config, options, applyFiltersShared(options))
    /\ ops' = [ops EXCEPT !.dataQueries = IF pc' = "awaitData" THEN 1 ELSE 0]
    /\ UNCHANGED <<mwOptions, req, queryOptions, store, countQuery, data, envelope>>

\* query.exec() resolves; without pagination execute returns, with
\* pagination it builds the count query and starts countDocuments(), or
\* rejects when building its filter throws
ExecuteDataResolve ==
    /\ pc = "awaitData"
    /\ ~Refused(query)
    /\ data' = Exec(store, query)
    /\ IF ~Truthy(options.pagination)
       THEN /\ \E ms \in 0..MaxElapsedMs :
                  envelope' = MakeResponse(options, data', Len(data'), ms)
            /\ pc' = "returned"
            /\ UNCHANGED <<countQuery, ops, error>>
       ELSE IF IsThrown(executeFilterQuery(options))
            THEN /\ error' = [kind |-> "TypeError", detail |-> <<>>]
                 /\ pc' = "rejected"
                 /\ UNCHANGED <<countQuery, ops, envelope>>
            ELSE /\ countQuery' = executeCountQuery(
                                      filteredQuery(executeFilterQuery(options)),
                                      options.fullTextSearch)
                 /\ ops' = [ops EXCEPT !.countQueries = @ + 1]
                 /\ pc' = "awaitCount"
                 /\ UNCHANGED <<envelope, error>>
    /\ UNCHANGED <<mwOptions, req, queryOptions, config, store, options, query>>

\* countDocuments() resolves and execute returns the response
ExecuteCountResolve ==
    /\ pc = "awaitCount"
    /\ \E ms \in 0..MaxElapsedMs :
          envelope' = MakeResponse(options, data, CountDocuments(store, countQuery), ms)
    /\ ops' = [ops EXCEPT !.countedStore = store]
    /\ pc' = "returned"
    /\ UNCHANGED <<mwOptions, req, queryOptions, config, store, options, query,
                   countQuery, data, error>>

NextExecute ==
    \/ ExecuteStart
    \/ ExecuteDataResolve
    \/ DataReject
    \/ ExecuteCountResolve
    \/ CountReject
    \/ OtherClientWrite

\* calls of execute over default filters, user filters, text search, sort
\* and pagination
ExecuteConfigs ==
    {[BaseConfig EXCEPT !.defaultFilters = d, !.filters = u, !.fullTextSearch = t,
                        !.sort = o, !.pagination = p] :
        d \in {Undef, Obj1(<<"isDeleted">>, Bool(FALSE)), Obj1(AgeGte, Num(20))},
        u \in {Undef, Obj1(<<"age">>, Num(25)), Obj1(AgeLte, Num(25)),
               Obj2(<<"isDeleted">>, Bool(FALSE), AgeGte, Num(25))},
        t \in SearchChoices, o \in {Undef, Str(<<"age", ":", "desc">>)},
        p \in {Undef, Page(1, 1), Page(2, 1)}}

InitExecute == \E cfg \in ExecuteConfigs : InitBuilder(cfg, SmallStore)

SpecExecute == InitExecute /\ [][NextExecute]_vars

\* C29: the totalCount of a paginated execute is the number of records that
\* match the conditions of its data query, the merged default and user
\* filters and the text search, in the collection the count was taken from.
C29_ExecuteTotalCount ==
    pc = "returned" /\ Truthy(options.pagination) =>
        envelope.meta.totalCount = NumberMatching(ops.countedStore, query.conditions)

----------------------------------------------------------------------------
(* Properties of the population of relations *)

\* the sub-fields a selection lists without a leading minus
ListedSubFields(select) ==
    {select.o[i].v.s : i \in {j \in 1..Len(select.o) : ~StartsWith(select.o[j].v.s, "-")}}

\* the sub-fields the relation is to be projected to
ExpectedSubFields(select) ==
    ListedSubFields(select)
        \cup (IF \E i \in 1..Len(select.o) : select.o[i].v.s = <<"-", "_", "id">>
              THEN {} ELSE {<<"_", "id">>})

\* the sub-fields a projection includes
IncludedSubFields(projection) ==
    {projection.o[i].k : i \in {j \in 1..Len(projection.o) : projection.o[j].v = Num(1)}}

\* the argument of one populate call is what the entry of the options asks
PopulatedAsAsked(opt, arg) ==
    /\ Get(arg, <<"path">>) = Get(opt, <<"path">>)
    /\ IF Truthy(Get(opt, <<"select">>))
       THEN /\ Has(arg, <<"select">>)
            /\ IncludedSubFields(Get(arg, <<"select">>))
                  = ExpectedSubFields(Get(opt, <<"select">>))
            /\ Len(Get(arg, <<"select">>).o)
                  = Cardinality(ExpectedSubFields(Get(opt, <<"select">>)))
       ELSE ~Has(arg, <<"select">>)

\* the entries of options.populate
PopulateEntries(opts) == IF Truthy(opts.populate) THEN opts.populate.o ELSE <<>>

====
